---- MODULE Spec2Model ----
(***************************************************************************)
(* Rotation engine of the Solace Vault plugin: the role/broker store, the  *)
(* rotation critical section (rotateRole), the periodic function, and the  *)
(* remote broker's view of each CLI user's password.                       *)
(*                                                                         *)
(* Passwords are numbered: 0 is the empty string, InitialPw the password a *)
(* CLI user had before the plugin ever touched it, and k >= 1 the k-th     *)
(* string returned by generatePassword (crypto/rand output, taken to be    *)
(* distinct from every earlier one).  Times are integers, 0 being the zero *)
(* time.Time; durations are in the same unit.                              *)
(***************************************************************************)
EXTENDS Integers, Sequences, FiniteSets, TLC

\* ---------------------------------------------------------------- bounds
MaxTime == 3
MaxPw == 3

\* ------------------------------------------------------------- universe
RoleNames == {"r1", "r2"}
BrokerNames == {"b1"}
CLIUsers == {"u1", "u2"}
Periods == {0, 1}
Callers == {"c1"}
Tick == "tick"
Procs == Callers \cup {Tick}

ZeroTime == 0
EmptyPw == 0
InitialPw == -1

\* ---------------------------------------------------------------- state
VARIABLES
    roles,        \* storage under roles/: name -> RoleEntry, for the names present
    brokers,      \* storage under config/brokers/: the names present
    configs,      \* storage under config/brokers/: name -> BrokerConfig
    remotePw,     \* the broker side: <<broker, cli user>> -> password it accepts
    roleMutex,    \* b.roleMutex: the process holding it, or "free"
    pc,           \* position of each process
    rname,        \* rotateRole's name argument, per process
    loc,          \* rotateRole's local *RoleEntry, per process
    cand,         \* rotateRole's newPassword, per process
    res,          \* what rotateRole returned to each on-demand caller
    tickList,     \* periodicFunc: the role names still to visit
    tickOut,      \* periodicFunc: what happened to each name visited in this run
    now,          \* the wall clock
    hist,         \* history: for the k-th generated password, its role and fate
    tickStart,    \* history: clock value when the running periodicFunc started
    tickBefore,   \* history: stored password of each role at that moment
    tickAccepted, \* history: roles whose change the broker confirmed in this run
    tickRet,      \* what periodicFunc returned to the host: "none" while it runs
    log,          \* the log lines written by each process's current call or run
    body,         \* what the last rotateRole call of each process returned, in full
    admin,        \* the role write in progress between its getRole and its putRole
    call,         \* the function or handler being run: arguments, locals, result
    semp,         \* the HTTP exchange of the ChangePassword call in progress
    creds         \* the response of the last credentials read

vars == <<roles, brokers, remotePw, roleMutex, pc, rname, loc, cand, res,
          tickList, tickOut, now, hist, tickStart, tickBefore, tickAccepted,
          tickRet, log, body, admin, call, semp, creds, configs>>

store == <<roles, brokers, configs>>
tickHist == <<tickStart, tickBefore, tickAccepted>>
plugin == <<roles, brokers, remotePw, roleMutex, pc, rname, loc, cand, res,
            tickList, tickOut, now, hist, tickStart, tickBefore, tickAccepted,
            tickRet, log, body, admin, configs>>
helper == <<call, semp, creds, configs>>
aux == <<tickRet, admin, helper>>
out == <<log, body>>

\* RoleEntry (types.go)
RoleEntry(b, u, per, len, pw, lr) ==
    [Broker |-> b, CLIUsername |-> u, RotationPeriod |-> per,
     PasswordLength |-> len, Password |-> pw, LastRotated |-> lr]

NilRole == RoleEntry("", "", 0, 0, EmptyPw, ZeroTime)

\* storage.go
hasRole(name) == name \in DOMAIN roles

getRole(name) == IF hasRole(name) THEN roles[name] ELSE NilRole

putRole(name, role) ==
    [x \in (DOMAIN roles) \cup {name} |-> IF x = name THEN role ELSE roles[x]]

deleteRole(name) == [x \in (DOMAIN roles) \ {name} |-> roles[x]]

\* logical.Storage.List returns the keys in lexical order
RECURSIVE SortedNames(_)
SortedNames(S) ==
    IF S = {} THEN <<>>
    ELSE LET m == CHOOSE x \in S : \A y \in S : (x = "r1") \/ (y # "r1")
         IN <<m>> \o SortedNames(S \ {m})

listRoles == SortedNames(DOMAIN roles)

\* path_rotate.go:12
defaultPasswordLength == 32

\* ------------------------------------------------------------- history
\* hist[k] follows the k-th generated password: the role it was generated
\* for, whether periodicFunc or an on-demand request asked for it, the
\* length generatePassword was called with (path_rotate.go:74), whether
\* the broker applied it, whether ChangePassword returned success for it,
\* whether putRole stored it, and the timestamp stored with it.
HistEntry(r, by) ==
    [role |-> r, by |-> by, len |-> defaultPasswordLength, applied |-> FALSE,
     confirmed |-> FALSE, stored |-> FALSE, ts |-> ZeroTime]

nextPw == Len(hist) + 1

Trigger(p) == IF p = Tick THEN "tick" ELSE "demand"

RotStates == {"getRole", "getBroker", "generate", "send", "recv", "put"}

Failures == {"err_storage", "resp_role_not_found", "resp_broker_not_found",
             "err_generate", "resp_rotate_failed", "err_manual_recovery"}

NoOutcome == [n \in {} |-> "none"]

\* backend.go:54-57: the listing failed, which periodicFunc only logs.
ListFailed == [n \in {"roles/"} |-> "list_failed"]

\* The returns of rotateRole that are Go errors; the others are responses.
GoErrors == {"err_storage", "err_generate", "err_manual_recovery"}

\* What a failing SEMP exchange carries besides the fact of the failure: the
\* reply body, the parse error or the transport error.
Diagnostics == {"d1", "d2"}

\* A line of the log: the message, the role it names, the password it
\* carries (new_password), and the error text it repeats.
LogLine(m, r, pw, d) == [msg |-> m, role |-> r, pw |-> pw, detail |-> d]

\* rotation_period left out of a role write (path_roles.go:31-35).
NoPeriod == -1

\* password_length left out of a role write.
NoLength == 0

\* A role write request: where it stands, its payload (name, broker,
\* cli_username, rotation_period, password_length), the broker configurations that were there
\* when it looked its broker up (found), the entry it read (existing), the
\* RoleEntry it has built, its result.
AdminReq(op, name, b, u, per, role, r) ==
    [op |-> op, name |-> name, broker |-> b, cli |-> u, per |-> per,
     len |-> NoLength,
     found |-> {}, existing |-> NilRole, role |-> role, res |-> r]

NoAdmin == AdminReq("idle", "", "", "", NoPeriod, NilRole, "none")

\* BrokerConfig (types.go)
BrokerConfig(url, user, pw, version, skip) ==
    [SEMPURL |-> url, AdminUsername |-> user, AdminPassword |-> pw,
     SEMPVersion |-> version, TLSSkipVerify |-> skip]

\* The configuration of a broker written before the roles were.
WrittenBroker == BrokerConfig("https://broker:8080", "admin", "pw1", "", FALSE)

\* No helper function is running.
NoCall == [fn |-> "none"]

\* No HTTP exchange is in progress.
NoExchange == [state |-> "none"]

\* No credentials read has been answered.
NoCreds == [res |-> "none"]

\* No rotateRole call has returned to the process.
NoBody == [text |-> "none", names |-> {}, detail |-> ""]

\* ----------------------------------------------------------------- init
\* A role as pathRolesWrite creates it: no password, never rotated.
NewRole(b, u, per) == RoleEntry(b, u, per, 0, EmptyPw, ZeroTime)

\* Stores the configuration surface can have built before any rotation:
\* r1 alone or r1 and r2, on the same or on different CLI users, with
\* automatic rotation on or off for r1.
InitialStores ==
    {[n \in {"r1"} |-> NewRole("b1", "u1", per)] : per \in Periods}
    \cup {[n \in RoleNames |-> IF n = "r1" THEN NewRole("b1", "u1", per)
                                           ELSE NewRole("b1", u, 1)] :
          per \in Periods, u \in CLIUsers}

\* The state after Factory/backend() and the configuration requests: a free
\* mutex, nothing in progress, no role rotated; the broker configuration
\* may be there or may have been deleted again.
Init ==
    /\ roles \in InitialStores
    /\ brokers \in SUBSET BrokerNames
    /\ configs = [b \in brokers |-> WrittenBroker]
    /\ remotePw = [k \in BrokerNames \X CLIUsers |-> InitialPw]
    /\ roleMutex = "free"
    /\ pc = [p \in Procs |-> "idle"]
    /\ rname = [p \in Procs |-> ""]
    /\ loc = [p \in Procs |-> NilRole]
    /\ cand = [p \in Procs |-> EmptyPw]
    /\ res = [c \in Callers |-> "none"]
    /\ tickList = <<>>
    /\ tickOut = NoOutcome
    /\ now = 1
    /\ hist = <<>>
    /\ tickStart = ZeroTime
    /\ tickBefore = [r \in RoleNames |-> EmptyPw]
    /\ tickAccepted = {}
    /\ tickRet = "none"
    /\ log = [p \in Procs |-> {}]
    /\ body = [p \in Procs |-> NoBody]
    /\ admin = NoAdmin
    /\ call = NoCall
    /\ semp = NoExchange
    /\ creds = NoCreds

\* ------------------------------------------------------- rotateRole
\* path_rotate.go:49-52, the on-demand trigger.
pathRotateRoleWrite(c, name) ==
    /\ pc[c] = "idle"
    /\ pc' = [pc EXCEPT ![c] = "lock"]
    /\ rname' = [rname EXCEPT ![c] = name]
    /\ UNCHANGED <<store, remotePw, roleMutex, loc, cand, res,
                   tickList, tickOut, now, hist, tickHist, aux, out>>

\* A lock that excludes nobody (rotateRole without the mutex).
CanLockAlways(p) == TRUE

\* sync.RWMutex: Lock succeeds only when nobody holds the mutex.
CanLock(p) == roleMutex = "free"

\* path_rotate.go:55  b.roleMutex.Lock()
Lock(p) ==
    /\ pc[p] = "lock"
    /\ CanLock(p)
    /\ nextPw <= MaxPw
    /\ roleMutex' = p
    /\ pc' = [pc EXCEPT ![p] = "getRole"]
    /\ UNCHANGED <<store, remotePw, rname, loc, cand, res,
                   tickList, tickOut, now, hist, tickHist, aux, out>>

\* What periodicFunc notes for the name it has dealt with.
Note(name, r) ==
    [n \in (DOMAIN tickOut) \cup {name} |-> IF n = name THEN r ELSE tickOut[n]]

\* The log lines of rotateRole with the new password left out.
RotateLogWithoutPassword(p, r, d) ==
    IF r = "resp_rotate_failed"
    THEN {LogLine("SEMP password change failed", rname[p], EmptyPw, d)}
    ELSE IF r = "err_manual_recovery"
    THEN {LogLine("manual recovery required", rname[p], EmptyPw, "")}
    ELSE {}

\* path_rotate.go:81-86 and 94-100: the lines rotateRole writes before it
\* returns r; d is the error ChangePassword returned.
RotateLog(p, r, d) ==
    IF r = "resp_rotate_failed"
    THEN {LogLine("SEMP password change failed", rname[p], EmptyPw, d)}
    ELSE IF r = "err_manual_recovery"
    THEN {LogLine("manual recovery required", rname[p], cand[p], "")}
    ELSE {}

\* backend.go:69-71: periodicFunc logs the error rotateRole returned, and
\* drops the response.
PeriodicLog(p, r) ==
    IF p = Tick /\ r \in GoErrors
    THEN {LogLine("periodic: failed to rotate role", rname[p], EmptyPw, "")}
    ELSE {}

\* The names a failure of rotateRole puts in its response or error text
\* (the %q arguments of path_rotate.go:63, 71, 87 and 101).
ErrorNames(p, r) ==
    IF r = "resp_role_not_found" THEN {rname[p]}
    ELSE IF r = "resp_broker_not_found" THEN {loc[p].Broker, rname[p]}
    ELSE IF r = "resp_rotate_failed" THEN {rname[p], loc[p].Broker}
    ELSE IF r = "err_manual_recovery" THEN {rname[p]}
    ELSE {}

\* A response that repeats the error ChangePassword returned.
ResponseBodyLeaking(p, r, d) == [text |-> r, names |-> ErrorNames(p, r), detail |-> d]

\* What rotateRole hands back when it returns r: which return it is, the
\* names in its text, and what it repeats of the error ChangePassword
\* returned, d: nothing, the response of path_rotate.go:87 having no
\* argument for it.
ResponseBody(p, r, d) == [text |-> r, names |-> ErrorNames(p, r), detail |-> ""]

\* A return of rotateRole with the lines logged on the way: d is the error
\* ChangePassword returned, "" where there is none.
Logged(p, r, d) ==
    /\ log' = [log EXCEPT ![p] = @ \cup RotateLog(p, r, d) \cup PeriodicLog(p, r)]
    /\ body' = [body EXCEPT ![p] = ResponseBody(p, r, d)]

\* rotateRole with an Unlock before the successful return only, in place of
\* the deferred one.
ReturnHoldingMutex(p, r) ==
    /\ roleMutex' = IF r = "ok" THEN "free" ELSE roleMutex
    /\ loc' = [loc EXCEPT ![p] = NilRole]
    /\ cand' = [cand EXCEPT ![p] = EmptyPw]
    /\ IF p = Tick
       THEN /\ pc' = [pc EXCEPT ![p] = "loop"]
            /\ tickList' = Tail(tickList)
            /\ tickOut' = Note(rname[p], r)
            /\ UNCHANGED res
       ELSE /\ pc' = [pc EXCEPT ![p] = "done"]
            /\ res' = [res EXCEPT ![p] = r]
            /\ UNCHANGED <<tickList, tickOut>>

\* periodicFunc giving up at the first rotation that does not succeed.
ReturnAborting(p, r) ==
    /\ roleMutex' = "free"
    /\ loc' = [loc EXCEPT ![p] = NilRole]
    /\ cand' = [cand EXCEPT ![p] = EmptyPw]
    /\ IF p = Tick
       THEN /\ pc' = [pc EXCEPT ![p] = IF r = "ok" THEN "loop" ELSE "done"]
            /\ tickList' = Tail(tickList)
            /\ tickOut' = Note(rname[p], r)
            /\ UNCHANGED res
       ELSE /\ pc' = [pc EXCEPT ![p] = "done"]
            /\ res' = [res EXCEPT ![p] = r]
            /\ UNCHANGED <<tickList, tickOut>>

\* A return from rotateRole: the deferred Unlock (path_rotate.go:56) runs; an
\* on-demand caller gets the result, periodicFunc (backend.go:69-72) goes on
\* with the next name.
Return(p, r) ==
    /\ roleMutex' = "free"
    /\ loc' = [loc EXCEPT ![p] = NilRole]
    /\ cand' = [cand EXCEPT ![p] = EmptyPw]
    /\ IF p = Tick
       THEN /\ pc' = [pc EXCEPT ![p] = "loop"]
            /\ tickList' = Tail(tickList)
            /\ tickOut' = Note(rname[p], r)
            /\ UNCHANGED res
       ELSE /\ pc' = [pc EXCEPT ![p] = "done"]
            /\ res' = [res EXCEPT ![p] = r]
            /\ UNCHANGED <<tickList, tickOut>>

\* rotateRole taking a missing role for an empty one and storing it.
GetRoleCreating(p) ==
    /\ pc[p] = "getRole"
    /\ \/ /\ Return(p, "err_storage")
          /\ UNCHANGED <<store, remotePw, rname, now, hist, tickHist, aux>>
          /\ Logged(p, "err_storage", "")
       \/ /\ ~hasRole(rname[p])
          /\ roles' = putRole(rname[p], NilRole)
          /\ Return(p, "resp_role_not_found")
          /\ UNCHANGED <<brokers, remotePw, rname, now, hist, tickHist, aux>>
          /\ Logged(p, "resp_role_not_found", "")
       \/ /\ hasRole(rname[p])
          /\ loc' = [loc EXCEPT ![p] = getRole(rname[p])]
          /\ pc' = [pc EXCEPT ![p] = "getBroker"]
          /\ UNCHANGED <<store, remotePw, roleMutex, rname, cand, res,
                         tickList, tickOut, now, hist, tickHist, aux, out>>

\* path_rotate.go:58-64
GetRole(p) ==
    /\ pc[p] = "getRole"
    /\ \/ /\ Return(p, "err_storage")
          /\ UNCHANGED <<store, remotePw, rname, now, hist, tickHist, aux>>
          /\ Logged(p, "err_storage", "")
       \/ /\ ~hasRole(rname[p])
          /\ Return(p, "resp_role_not_found")
          /\ UNCHANGED <<store, remotePw, rname, now, hist, tickHist, aux>>
          /\ Logged(p, "resp_role_not_found", "")
       \/ /\ hasRole(rname[p])
          /\ loc' = [loc EXCEPT ![p] = getRole(rname[p])]
          /\ pc' = [pc EXCEPT ![p] = "getBroker"]
          /\ UNCHANGED <<store, remotePw, roleMutex, rname, cand, res,
                         tickList, tickOut, now, hist, tickHist, aux, out>>

\* rotateRole going on to generatePassword whether the broker is there or not.
GetBrokerUnchecked(p) ==
    /\ pc[p] = "getBroker"
    /\ \/ /\ Return(p, "err_storage")
          /\ UNCHANGED <<store, remotePw, rname, now, hist, tickHist, aux>>
          /\ Logged(p, "err_storage", "")
       \/ /\ pc' = [pc EXCEPT ![p] = "generate"]
          /\ UNCHANGED <<store, remotePw, roleMutex, rname, loc, cand, res,
                         tickList, tickOut, now, hist, tickHist, aux, out>>

\* path_rotate.go:66-72
GetBroker(p) ==
    /\ pc[p] = "getBroker"
    /\ \/ /\ Return(p, "err_storage")
          /\ UNCHANGED <<store, remotePw, rname, now, hist, tickHist, aux>>
          /\ Logged(p, "err_storage", "")
       \/ /\ loc[p].Broker \notin brokers
          /\ Return(p, "resp_broker_not_found")
          /\ UNCHANGED <<store, remotePw, rname, now, hist, tickHist, aux>>
          /\ Logged(p, "resp_broker_not_found", "")
       \/ /\ loc[p].Broker \in brokers
          /\ pc' = [pc EXCEPT ![p] = "generate"]
          /\ UNCHANGED <<store, remotePw, roleMutex, rname, loc, cand, res,
                         tickList, tickOut, now, hist, tickHist, aux, out>>

\* path_rotate.go:74-77  generatePassword(defaultPasswordLength): a fresh
\* string, or an error when crypto/rand fails.
Generate(p) ==
    /\ pc[p] = "generate"
    /\ \/ /\ Return(p, "err_generate")
          /\ UNCHANGED <<store, remotePw, rname, now, hist, tickHist, aux>>
          /\ Logged(p, "err_generate", "")
       \/ /\ cand' = [cand EXCEPT ![p] = nextPw]
          /\ hist' = Append(hist, HistEntry(rname[p], Trigger(p)))
          /\ pc' = [pc EXCEPT ![p] = "send"]
          /\ UNCHANGED <<store, remotePw, roleMutex, rname, loc, res,
                         tickList, tickOut, now, tickHist, aux, out>>

\* The remote account a role maps to.
RemoteKey(role) == <<role.Broker, role.CLIUsername>>

\* path_rotate.go:79-80, ChangePassword up to HTTPClient.Do: the request
\* goes out; the broker either sets the password of the CLI user or does
\* not (unreachable, redirect, rejected command).
ChangePasswordSend(p) ==
    /\ pc[p] = "send"
    /\ pc' = [pc EXCEPT ![p] = "recv"]
    /\ \/ /\ remotePw' = [remotePw EXCEPT ![RemoteKey(loc[p])] = cand[p]]
          /\ hist' = [hist EXCEPT ![cand[p]].applied = TRUE]
       \/ UNCHANGED <<remotePw, hist>>
    /\ UNCHANGED <<store, roleMutex, rname, loc, cand, res,
                   tickList, tickOut, now, tickHist, aux, out>>

\* ChangePassword returns nil only for a 200 reply whose execute-result code
\* is "ok", which the broker sends only after applying the change.
ReplyOk(p) == hist[cand[p]].applied

\* rotateRole going on to the store write whatever ChangePassword returned.
ChangePasswordRecvIgnoringError(p) ==
    /\ pc[p] = "recv"
    /\ pc' = [pc EXCEPT ![p] = "put"]
    /\ UNCHANGED <<store, remotePw, roleMutex, rname, loc, cand, res,
                   tickList, tickOut, now, hist, tickHist, aux, out>>

\* path_rotate.go:80-88: the outcome of ChangePassword.  A failure (transport
\* error, timeout, non-200, unparsable body, code other than "ok") can follow
\* an applied change as well as a refused one: the reply may be lost.
ChangePasswordRecv(p) ==
    /\ pc[p] = "recv"
    /\ \/ /\ ReplyOk(p)
          /\ hist' = [hist EXCEPT ![cand[p]].confirmed = TRUE]
          /\ tickAccepted' = IF p = Tick /\ tickStart # ZeroTime
                             THEN tickAccepted \cup {rname[p]}
                             ELSE tickAccepted
          /\ pc' = [pc EXCEPT ![p] = "put"]
          /\ UNCHANGED <<store, remotePw, roleMutex, rname, loc, cand, res,
                         tickList, tickOut, now, tickStart, tickBefore, aux, out>>
       \/ /\ Return(p, "resp_rotate_failed")
          /\ UNCHANGED <<store, remotePw, rname, now, hist, tickHist, aux>>
          /\ \E d \in Diagnostics : Logged(p, "resp_rotate_failed", d)

\* A rotation that also switches the automatic rotation of the role off.
RotatedResettingPeriod(role, pw, t) ==
    [role EXCEPT !.Password = pw, !.LastRotated = t, !.RotationPeriod = 0]

\* A rotation that stores the new password but not the time.
RotatedKeepingTime(role, pw, t) == [role EXCEPT !.Password = pw]

\* A rotation that stores the time but not the new password.
RotatedKeepingPassword(role, pw, t) == [role EXCEPT !.LastRotated = t]

\* path_rotate.go:90-91
Rotated(role, pw, t) == [role EXCEPT !.Password = pw, !.LastRotated = t]

\* A store write that takes effect and is reported as failed.
PutRotatedReportingFailure(p) ==
    /\ pc[p] = "put"
    /\ roles' = putRole(rname[p], [loc[p] EXCEPT !.Password = cand[p], !.LastRotated = now])
    /\ hist' = [hist EXCEPT ![cand[p]].stored = TRUE, ![cand[p]].ts = now]
    /\ Return(p, "err_manual_recovery")
    /\ UNCHANGED <<brokers, remotePw, rname, now, tickHist, aux>>
    /\ Logged(p, "err_manual_recovery", "")

\* A store write that, when it fails, still stamps the role with the time of
\* the attempt.
PutRotatedStampingFailure(p) ==
    /\ pc[p] = "put"
    /\ \/ /\ roles' = putRole(rname[p], Rotated(loc[p], cand[p], now))
          /\ hist' = [hist EXCEPT ![cand[p]].stored = TRUE, ![cand[p]].ts = now]
          /\ Return(p, "ok")
          /\ UNCHANGED <<brokers, remotePw, rname, now, tickHist, aux>>
          /\ Logged(p, "ok", "")
       \/ /\ roles' = putRole(rname[p], [loc[p] EXCEPT !.LastRotated = now])
          /\ Return(p, "err_manual_recovery")
          /\ UNCHANGED <<brokers, remotePw, rname, now, hist, tickHist, aux>>
          /\ Logged(p, "err_manual_recovery", "")

\* path_rotate.go:90-104
PutRotated(p) ==
    /\ pc[p] = "put"
    /\ \/ /\ roles' = putRole(rname[p], Rotated(loc[p], cand[p], now))
          /\ hist' = [hist EXCEPT ![cand[p]].stored = TRUE, ![cand[p]].ts = now]
          /\ Return(p, "ok")
          /\ UNCHANGED <<brokers, remotePw, rname, now, tickHist, aux>>
          /\ Logged(p, "ok", "")
       \/ /\ Return(p, "err_manual_recovery")
          /\ UNCHANGED <<store, remotePw, rname, now, hist, tickHist, aux>>
          /\ Logged(p, "err_manual_recovery", "")

\* The on-demand caller has its response.
CallerDone(c) ==
    /\ pc[c] = "done"
    /\ pc' = [pc EXCEPT ![c] = "idle"]
    /\ res' = [res EXCEPT ![c] = "none"]
    /\ rname' = [rname EXCEPT ![c] = ""]
    /\ log' = [log EXCEPT ![c] = {}]
    /\ body' = [body EXCEPT ![c] = NoBody]
    /\ UNCHANGED <<store, remotePw, roleMutex, loc, cand,
                   tickList, tickOut, now, hist, tickHist, aux>>

\* ------------------------------------------------------- periodicFunc
\* The due check without the test for a rotation period.
DueIgnoringPeriod(name, t) ==
    /\ hasRole(name)
    /\ getRole(name).LastRotated # ZeroTime
    /\ t > getRole(name).LastRotated + getRole(name).RotationPeriod

\* The due check without the test for a first rotation.
DueIgnoringNeverRotated(name, t) ==
    /\ hasRole(name)
    /\ getRole(name).RotationPeriod # 0
    /\ t > getRole(name).LastRotated + getRole(name).RotationPeriod

\* backend.go:65-68: the role is rotated when it exists, has a rotation
\* period, has been rotated before, and time.Now() is after
\* LastRotated + RotationPeriod.
Due(name, t) ==
    /\ hasRole(name)
    /\ getRole(name).RotationPeriod # 0
    /\ getRole(name).LastRotated # ZeroTime
    /\ t > getRole(name).LastRotated + getRole(name).RotationPeriod

StoredPw(r) == getRole(r).Password

\* periodicFunc handing a failed listing to the host as its error.
TickBeginReturningError(traced) ==
    /\ pc[Tick] = "idle"
    /\ \/ /\ pc' = [pc EXCEPT ![Tick] = "done"]
          /\ tickList' = <<>>
          /\ tickOut' = ListFailed
          /\ tickRet' = "error"
          /\ UNCHANGED out
       \/ /\ pc' = [pc EXCEPT ![Tick] = "loop"]
          /\ tickList' = listRoles
          /\ tickOut' = NoOutcome
          /\ UNCHANGED <<log, body, tickRet>>
    /\ UNCHANGED <<store, remotePw, roleMutex, rname, loc, cand, res, now, hist,
                   tickHist, admin, helper>>

\* backend.go:52-57.  With traced, the history of this run is kept.
TickBegin(traced) ==
    /\ pc[Tick] = "idle"
    /\ \/ /\ pc' = [pc EXCEPT ![Tick] = "done"]
          /\ tickList' = <<>>
          /\ tickOut' = ListFailed
          /\ log' = [log EXCEPT ![Tick] =
                        {LogLine("periodic: failed to list roles", "", EmptyPw, "")}]
          /\ UNCHANGED body
          /\ tickRet' = "nil"
       \/ /\ pc' = [pc EXCEPT ![Tick] = "loop"]
          /\ tickList' = listRoles
          /\ tickOut' = NoOutcome
          /\ UNCHANGED <<log, body, tickRet>>
    /\ IF traced
       THEN /\ tickStart' = now
            /\ tickBefore' = [r \in RoleNames |-> StoredPw(r)]
            /\ tickAccepted' = {}
       ELSE UNCHANGED tickHist
    /\ UNCHANGED <<store, remotePw, roleMutex, rname, loc, cand, res, now, hist, admin, helper>>

TickStart == TickBegin(FALSE)

TickStartTraced == TickBegin(TRUE)

\* "continue" in the loop of periodicFunc
Continue(r) ==
    /\ tickList' = Tail(tickList)
    /\ tickOut' = Note(Head(tickList), r)
    /\ UNCHANGED <<pc, rname>>

\* backend.go:59-69, one iteration up to the call of rotateRole
TickNext ==
    /\ pc[Tick] = "loop"
    /\ tickList # <<>>
    /\ \/ /\ Continue("read_failed")
          /\ log' = [log EXCEPT ![Tick] = @ \cup
                        {LogLine("periodic: failed to read role", Head(tickList), EmptyPw, "")}]
          /\ UNCHANGED body
       \/ /\ ~Due(Head(tickList), now)
          /\ Continue("skipped")
          /\ UNCHANGED out
       \/ /\ Due(Head(tickList), now)
          /\ pc' = [pc EXCEPT ![Tick] = "lock"]
          /\ rname' = [rname EXCEPT ![Tick] = Head(tickList)]
          /\ UNCHANGED <<tickList, tickOut, out>>
    /\ UNCHANGED <<store, remotePw, roleMutex, loc, cand, res, now, hist, tickHist, aux>>

\* backend.go:75  return nil
TickEnd ==
    /\ pc[Tick] = "loop"
    /\ tickList = <<>>
    /\ pc' = [pc EXCEPT ![Tick] = "done"]
    /\ tickRet' = "nil"
    /\ UNCHANGED <<store, remotePw, roleMutex, rname, loc, cand, res,
                   tickList, tickOut, now, hist, tickHist, admin, helper, out>>

\* The host has the periodic function's result; the next tick may start.
TickDone ==
    /\ pc[Tick] = "done"
    /\ pc' = [pc EXCEPT ![Tick] = "idle"]
    /\ rname' = [rname EXCEPT ![Tick] = ""]
    /\ tickOut' = NoOutcome
    /\ tickStart' = ZeroTime
    /\ tickBefore' = [r \in RoleNames |-> EmptyPw]
    /\ tickAccepted' = {}
    /\ tickRet' = "none"
    /\ log' = [log EXCEPT ![Tick] = {}]
    /\ body' = [body EXCEPT ![Tick] = NoBody]
    /\ UNCHANGED <<store, remotePw, roleMutex, loc, cand, res, tickList, now, hist, admin, helper>>

\* ------------------------------------------------------- configuration
rotVars == <<remotePw, roleMutex, pc, rname, loc, cand, res, tickList, tickOut,
             now, hist, tickHist, tickRet, log, body, helper>>

\* The names role requests are made for, and the CLI users they name.
ConfigNames == {"r1"}
ConfigUsers == {"u1"}

AdminDone(r) == admin' = [admin EXCEPT !.op = "done", !.res = r]

\* A role write that does not look at what the broker lookup returned.
pathRolesWriteUnchecked(name, b, u, per, len) ==
    LET Req(op, r, seen) ==
            [AdminReq(op, name, b, u, per, NilRole, r) EXCEPT !.len = len, !.found = seen]
    IN  /\ admin.op = "idle"
        /\ \/ /\ b = ""
              /\ admin' = Req("done", "resp_broker_required", {})
           \/ /\ b # ""
              /\ u = ""
              /\ admin' = Req("done", "resp_cli_username_required", {})
           \/ /\ b # ""
              /\ u # ""
              /\ \/ admin' = Req("done", "err_storage", {})
                 \/ admin' = Req("getRole", "none", brokers)
        /\ UNCHANGED <<store, rotVars>>

\* path_roles.go:77-97: the payload is read and checked, the broker looked
\* up.  The fields read are name, broker, cli_username and rotation_period;
\* a password_length in the payload (len) is read by nothing.
pathRolesWrite(name, b, u, per, len) ==
    LET Req(op, r, seen) ==
            [AdminReq(op, name, b, u, per, NilRole, r) EXCEPT !.len = len, !.found = seen]
    IN  /\ admin.op = "idle"
        /\ \/ /\ b = ""
              /\ admin' = Req("done", "resp_broker_required", {})
           \/ /\ b # ""
              /\ u = ""
              /\ admin' = Req("done", "resp_cli_username_required", {})
           \/ /\ b # ""
              /\ u # ""
              /\ \/ admin' = Req("done", "err_storage", {})
                 \/ /\ b \notin brokers
                    /\ admin' = Req("done", "resp_broker_not_found", brokers)
                 \/ /\ b \in brokers
                    /\ admin' = Req("getRole", "none", brokers)
        /\ UNCHANGED <<store, rotVars>>

\* A role write that takes the password of the existing entry and not its
\* timestamp.
pathRolesWriteGetRoleDroppingTime ==
    /\ admin.op = "getRole"
    /\ \/ AdminDone("err_storage")
       \/ admin' = [admin EXCEPT
                       !.op = "put",
                       !.existing = getRole(admin.name),
                       !.role = RoleEntry(admin.broker, admin.cli,
                                          IF admin.per = NoPeriod THEN 0 ELSE admin.per,
                                          0,
                                          getRole(admin.name).Password,
                                          ZeroTime)]
    /\ UNCHANGED <<store, rotVars>>

\* A role write that keeps the stored rotation period when the payload has
\* none.
pathRolesWriteGetRoleMerging ==
    /\ admin.op = "getRole"
    /\ \/ AdminDone("err_storage")
       \/ admin' = [admin EXCEPT
                       !.op = "put",
                       !.existing = getRole(admin.name),
                       !.role = RoleEntry(admin.broker, admin.cli,
                                          IF admin.per = NoPeriod
                                          THEN getRole(admin.name).RotationPeriod
                                          ELSE admin.per,
                                          0,
                                          getRole(admin.name).Password,
                                          getRole(admin.name).LastRotated)]
    /\ UNCHANGED <<store, rotVars>>

\* path_roles.go:99-114: the existing entry is read and the new one built from
\* the payload, with the password and timestamp of the existing one.
pathRolesWriteGetRole ==
    /\ admin.op = "getRole"
    /\ \/ AdminDone("err_storage")
       \/ admin' = [admin EXCEPT
                       !.op = "put",
                       !.existing = getRole(admin.name),
                       !.role = RoleEntry(admin.broker, admin.cli,
                                          IF admin.per = NoPeriod THEN 0 ELSE admin.per,
                                          0,
                                          getRole(admin.name).Password,
                                          getRole(admin.name).LastRotated)]
    /\ UNCHANGED <<store, rotVars>>

\* path_roles.go:116-120
pathRolesWritePut ==
    /\ admin.op = "put"
    /\ \/ /\ roles' = putRole(admin.name, admin.role)
          /\ AdminDone("ok")
       \/ /\ AdminDone("err_storage")
          /\ UNCHANGED roles
    /\ UNCHANGED <<brokers, rotVars>>

\* The client has the response of its role write.
pathRolesWriteDone ==
    /\ admin.op = "done"
    /\ admin' = NoAdmin
    /\ UNCHANGED <<store, rotVars>>

\* path_roles.go:146-154; a failed delete changes nothing.
pathRolesDelete(name) ==
    /\ roles' = deleteRole(name)
    /\ UNCHANGED <<brokers, rotVars, admin>>

\* path_config_brokers.go:165-173; a failed delete changes nothing.
pathConfigBrokersDelete(b) ==
    /\ brokers' = brokers \ {b}
    /\ configs' = [x \in DOMAIN configs \ {b} |-> configs[x]]
    /\ UNCHANGED <<roles, remotePw, roleMutex, pc, rname, loc, cand, res,
                   tickList, tickOut, now, hist, tickHist, tickRet, log, body,
                   admin, call, semp, creds>>

\* path_roles.go:123-144: the data of a role read, by key; no data for a
\* name that is not in the store.
pathRolesRead(name) ==
    LET role == getRole(name)
        keys == {"broker", "cli_username", "rotation_period"}
                \cup (IF role.LastRotated # ZeroTime THEN {"last_rotated"} ELSE {})
    IN  IF ~hasRole(name)
        THEN [k \in {} |-> 0]
        ELSE [k \in keys |->
                 CASE k = "broker" -> role.Broker
                   [] k = "cli_username" -> role.CLIUsername
                   [] k = "rotation_period" -> role.RotationPeriod
                   [] k = "last_rotated" -> role.LastRotated]

\* ---------------------------------------------------------------- clock
ClockAdvance ==
    /\ now < MaxTime
    /\ now' = now + 1
    /\ UNCHANGED <<store, remotePw, roleMutex, pc, rname, loc, cand, res,
                   tickList, tickOut, hist, tickHist, aux, out>>

\* ------------------------------------------------------- specifications
\* The rotation requests and the steps of rotateRole.
Requests ==
    \/ \E c \in Callers, name \in RoleNames : pathRotateRoleWrite(c, name)
    \/ \E c \in Callers : CallerDone(c)
    \/ \E p \in Procs : Lock(p)
    \/ \E p \in Procs : GetRole(p)
    \/ \E p \in Procs : GetBroker(p)
    \/ \E p \in Procs : Generate(p)
    \/ \E p \in Procs : ChangePasswordSend(p)
    \/ \E p \in Procs : ChangePasswordRecv(p)
    \/ \E p \in Procs : PutRotated(p)

OnDemand ==
    \/ Requests
    \/ ClockAdvance

Rotation ==
    \/ OnDemand
    \/ TickNext
    \/ TickEnd
    \/ TickDone

Next == Rotation \/ TickStart

Spec == Init /\ [][Next]_vars

\* The same program with the history of each periodicFunc run kept, started
\* from the stores that hold r1 alone.
InitTraced == Init /\ DOMAIN roles = {"r1"}

NextTraced == Rotation \/ TickStartTraced

SpecTraced == InitTraced /\ [][NextTraced]_vars

\* The program of Spec on the stores that hold r1 alone, with the broker
\* configuration deleted at any moment, before or after r1 was rotated.
NextDangling == Next \/ \E b \in BrokerNames : pathConfigBrokersDelete(b)

SpecDangling == InitTraced /\ [][NextDangling]_vars

\* The steps of rotateRole between Lock and the deferred Unlock.
Critical(p) ==
    \/ GetRole(p)
    \/ GetBroker(p)
    \/ Generate(p)
    \/ ChangePasswordSend(p)
    \/ ChangePasswordRecv(p)
    \/ PutRotated(p)

\* The steps of a periodicFunc run in which nothing fails: the listing is
\* read; a role is read and passed over, or handed to rotateRole when due;
\* the storage answers; crypto/rand delivers; the broker applies the change
\* and says so; the store takes the write.
ListSucceeds == TickStart /\ pc'[Tick] = "loop"

ReadSkips == TickNext /\ tickOut' # tickOut /\ tickOut'[Head(tickList)] = "skipped"

ReadRotates == TickNext /\ pc'[Tick] = "lock"

GetRoleSucceeds == GetRole(Tick) /\ pc'[Tick] = "getBroker"

GetBrokerSucceeds == GetBroker(Tick) /\ pc'[Tick] = "generate"

GenerateSucceeds == Generate(Tick) /\ pc'[Tick] = "send"

BrokerApplies == ChangePasswordSend(Tick) /\ remotePw' # remotePw

ReplyArrives == ChangePasswordRecv(Tick) /\ pc'[Tick] = "put"

PutSucceeds == PutRotated(Tick) /\ roles' # roles

\* The host calls the periodic function again and again, and each call comes
\* to its end; rotateRole gets the mutex and comes to its end (the HTTP
\* client has a timeout); and failures do not last for ever: a step that can
\* succeed again and again does succeed.
Fairness ==
    /\ WF_vars(TickEnd)
    /\ WF_vars(TickDone)
    /\ WF_vars(Lock(Tick))
    /\ WF_vars(Critical(Tick))
    /\ SF_vars(ListSucceeds)
    /\ SF_vars(ReadSkips)
    /\ SF_vars(ReadRotates)
    /\ SF_vars(GetRoleSucceeds)
    /\ SF_vars(GetBrokerSucceeds)
    /\ SF_vars(GenerateSucceeds)
    /\ SF_vars(BrokerApplies)
    /\ SF_vars(ReplyArrives)
    /\ SF_vars(PutSucceeds)

\* The periodic function alone, from the state an on-demand rotation of r1
\* at time 1 leaves behind, under these fairness conditions.
InitLive ==
    /\ roles = [n \in {"r1"} |-> RoleEntry("b1", "u1", 1, 0, 1, 1)]
    /\ brokers = BrokerNames
    /\ configs = [b \in brokers |-> WrittenBroker]
    /\ remotePw = [k \in BrokerNames \X CLIUsers |->
                      IF k = <<"b1", "u1">> THEN 1 ELSE InitialPw]
    /\ roleMutex = "free"
    /\ pc = [p \in Procs |-> "idle"]
    /\ rname = [p \in Procs |-> ""]
    /\ loc = [p \in Procs |-> NilRole]
    /\ cand = [p \in Procs |-> EmptyPw]
    /\ res = [c \in Callers |-> "none"]
    /\ tickList = <<>>
    /\ tickOut = NoOutcome
    /\ now = 1
    /\ hist = <<[HistEntry("r1", "demand") EXCEPT
                     !.applied = TRUE, !.confirmed = TRUE, !.stored = TRUE, !.ts = 1]>>
    /\ tickStart = ZeroTime
    /\ tickBefore = [r \in RoleNames |-> EmptyPw]
    /\ tickAccepted = {}
    /\ tickRet = "none"
    /\ log = [p \in Procs |-> {}]
    /\ body = [p \in Procs |-> NoBody]
    /\ admin = NoAdmin
    /\ call = NoCall
    /\ semp = NoExchange
    /\ creds = NoCreds

NextLive ==
    \/ TickStart
    \/ TickNext
    \/ TickEnd
    \/ TickDone
    \/ Lock(Tick)
    \/ Critical(Tick)
    \/ ClockAdvance

SpecLive == InitLive /\ [][NextLive]_vars /\ Fairness

\* The program with its configuration surface: role writes and deletes and
\* broker deletes run alongside the on-demand rotations, from an empty role
\* store, all within one unit of time.
Config ==
    \/ \E name \in ConfigNames, b \in BrokerNames \cup {""},
          u \in ConfigUsers \cup {""}, per \in Periods \cup {NoPeriod} :
          pathRolesWrite(name, b, u, per, NoLength)
    \/ pathRolesWriteGetRole
    \/ pathRolesWritePut
    \/ pathRolesWriteDone
    \/ \E name \in ConfigNames : pathRolesDelete(name)
    \/ \E b \in BrokerNames : pathConfigBrokersDelete(b)

Blank ==
    /\ roles = [n \in {} |-> NilRole]
    /\ brokers = BrokerNames
    /\ configs = [b \in brokers |-> WrittenBroker]
    /\ remotePw = [k \in BrokerNames \X CLIUsers |-> InitialPw]
    /\ roleMutex = "free"
    /\ pc = [p \in Procs |-> "idle"]
    /\ rname = [p \in Procs |-> ""]
    /\ loc = [p \in Procs |-> NilRole]
    /\ cand = [p \in Procs |-> EmptyPw]
    /\ res = [c \in Callers |-> "none"]
    /\ tickList = <<>>
    /\ tickOut = NoOutcome
    /\ now = 1
    /\ hist = <<>>
    /\ tickStart = ZeroTime
    /\ tickBefore = [r \in RoleNames |-> EmptyPw]
    /\ tickAccepted = {}
    /\ tickRet = "none"
    /\ log = [p \in Procs |-> {}]
    /\ body = [p \in Procs |-> NoBody]
    /\ admin = NoAdmin

InitConfig == Blank /\ call = NoCall /\ semp = NoExchange /\ creds = NoCreds

NextConfig == Requests \/ Config

SpecConfig == InitConfig /\ [][NextConfig]_vars

\* The password lengths the documentation speaks of (README.md:356), the
\* default it gives (README.md:176), and the lengths role writes are made
\* with: the two ends of the range and their outer neighbours.
MinPasswordLength == 16
MaxPasswordLength == 128
DocPasswordLength == 25
Lengths == {MinPasswordLength - 1, MinPasswordLength, MaxPasswordLength,
            MaxPasswordLength + 1}

\* Role writes that carry a password_length, or none, alongside the
\* on-demand rotations, from an empty role store.
ConfigLength ==
    \/ \E name \in ConfigNames, b \in BrokerNames, u \in ConfigUsers,
          len \in Lengths \cup {NoLength} :
          pathRolesWrite(name, b, u, 0, len)
    \/ pathRolesWriteGetRole
    \/ pathRolesWritePut
    \/ pathRolesWriteDone

NextLength == Requests \/ ConfigLength

SpecLength == InitConfig /\ [][NextLength]_vars

\* ------------------------------------------------------ generatePassword
\* docs/plans/2026-02-01-solace-vault-plugin-implementation.md:2253-2254
\* "Solace password constraints: max 128 chars", and a list of the
\* characters left out.
passwordCharset ==
    <<"a", "b", "c", "d", "e", "f", "g", "h", "i", "j", "k", "l", "m",
      "n", "o", "p", "q", "r", "s", "t", "u", "v", "w", "x", "y", "z",
      "A", "B", "C", "D", "E", "F", "G", "H", "I", "J", "K", "L", "M",
      "N", "O", "P", "Q", "R", "S", "T", "U", "V", "W", "X", "Y", "Z",
      "0", "1", "2", "3", "4", "5", "6", "7", "8", "9",
      "!", "@", "#", "$", "%", "^", "-", "_", "=", "+", ".", "~">>

\* The grave accent, which a string of this notation cannot hold.
Grave == "U+0060"

\* The characters a password must not contain (TestGeneratePassword).
excluded ==
    {":", "(", ")", "\"", ";", "'", "<", ">", ",", Grave, "\\", "*", "&", "|"}

\* The byte of a position of result that has not been written.
NUL == "\\x00"

\* The lengths generatePassword is called with: those of its tests and the
\* first one above the maximum.
GenLengths == {MinPasswordLength - 1, MinPasswordLength, MaxPasswordLength,
               MaxPasswordLength + 1}

\* The values of idx that rand.Int is taken to return: the first index of
\* passwordCharset, the index of its first punctuation character, the last.
RandIdx == {0, 62, Len(passwordCharset) - 1}

\* result := make([]byte, length): its length and the set of its bytes.
MakeBytes(length) ==
    [len |-> length, bytes |-> IF length > 0 THEN {NUL} ELSE {}]

\* result[i] = c, for the next i of the loop, which writes the positions in
\* order: position i was unwritten, the positions after it still are.
SetByte(result, i, c) ==
    [result EXCEPT !.bytes = (@ \ {NUL}) \cup {c}
                             \cup (IF i + 1 < result.len THEN {NUL} ELSE {})]

NoBytes == [len |-> 0, bytes |-> {}]

\* A call of generatePassword(length) at its first statement.
GenCall(length) ==
    [fn |-> "generatePassword", length |-> length, at |-> "check", i |-> 0,
     result |-> NoBytes, ret |-> NoBytes, err |-> "none"]

\* :2257-2260  the check of length, then make([]byte, length)
generatePasswordCheck ==
    /\ call.fn = "generatePassword" /\ call.at = "check"
    /\ call' = IF call.length < MinPasswordLength
               THEN [call EXCEPT !.at = "done", !.err = "err_length"]
               ELSE [call EXCEPT !.at = "loop", !.result = MakeBytes(call.length)]
    /\ UNCHANGED <<plugin, semp, creds>>

\* :2263-2269  one iteration of the loop: rand.Int fails, or yields idx
generatePasswordLoop ==
    /\ call.fn = "generatePassword" /\ call.at = "loop"
    /\ call.i < call.length
    /\ \/ call' = [call EXCEPT !.at = "done", !.err = "err_rand"]
       \/ \E idx \in RandIdx :
            call' = [call EXCEPT
                       !.result = SetByte(@, call.i, passwordCharset[idx + 1]),
                       !.i = @ + 1]
    /\ UNCHANGED <<plugin, semp, creds>>

\* :2271  return string(result), nil
generatePasswordReturn ==
    /\ call.fn = "generatePassword" /\ call.at = "loop"
    /\ call.i >= call.length
    /\ call' = [call EXCEPT !.at = "done", !.ret = call.result]
    /\ UNCHANGED <<plugin, semp, creds>>

InitGenerate ==
    /\ Blank /\ semp = NoExchange /\ creds = NoCreds
    /\ \E length \in GenLengths : call = GenCall(length)

NextGenerate ==
    \/ generatePasswordCheck
    \/ generatePasswordLoop
    \/ generatePasswordReturn

SpecGenerate == InitGenerate /\ [][NextGenerate]_vars

\* ------------------------------------------------------- ChangePassword
\* The HTTP statuses a reply comes with: 200, another 2xx, the redirect of
\* TestSEMPClient_ChangePassword_RedirectBlocked, a server error.
Statuses == {200, 201, 302, 500}

\* The host a redirect points to (TestSEMPClient_ChangePassword_RedirectBlocked).
Location == "evil.example.com"

\* The response bodies: one that is no XML document, and the documents with
\* a root element, an execute-result code attribute or none, and the text of
\* a parse-error element ("" for none).
NotXML == [xml |-> FALSE]

Documents ==
    [xml : {TRUE}, root : {"rpc-reply", "html"},
     code : {"ok", "fail", "absent"}, parseError : {"", "d1"}]

Bodies == {NotXML} \cup Documents

\* What HTTPClient.Do and io.ReadAll can yield: an error of Do (no
\* connection, a timeout), or a response with a status and a body, whose
\* reading may fail.
NoResponse == [net |-> "error"]

Responses ==
    {NoResponse} \cup [net : {"ok"}, status : Statuses, body : Bodies,
                       readErr : BOOLEAN]

\* net/http: the statuses on which the client consults CheckRedirect.
IsRedirect(r) == r.net = "ok" /\ r.status \in {301, 302, 303, 307, 308}

\* sempReply as xml.Unmarshal fills it (part_005:24-32, 87-90): an error for
\* what is no document or has another root than rpc-reply; an attribute or
\* element that is absent leaves its field empty.
UnmarshalError == [err |-> TRUE]

xmlUnmarshal(respBody) ==
    IF ~respBody.xml \/ respBody.root # "rpc-reply"
    THEN UnmarshalError
    ELSE [err |-> FALSE,
          Code |-> IF respBody.code = "absent" THEN "" ELSE respBody.code,
          ParseError |-> respBody.parseError]

\* ChangePassword taking every 2xx status for a success of the transport.
ChangePasswordErrorAny2xx(r) ==
    IF r.net # "ok" THEN "err_request"
    ELSE IF r.readErr THEN "err_read"
    ELSE IF r.status \notin 200..299 THEN "err_status"
    ELSE LET reply == xmlUnmarshal(r.body)
         IN  IF reply.err THEN "err_parse"
             ELSE IF reply.Code # "ok" THEN "err_command"
             ELSE "nil"

\* part_005:72-100  what ChangePassword returns for what Do yielded
ChangePasswordError(r) ==
    IF r.net # "ok" THEN "err_request"
    ELSE IF r.readErr THEN "err_read"
    ELSE IF r.status # 200 THEN "err_status"
    ELSE LET reply == xmlUnmarshal(r.body)
         IN  IF reply.err THEN "err_parse"
             ELSE IF reply.Code # "ok" THEN "err_command"
             ELSE "nil"

\* An http.Client with no CheckRedirect, which follows redirects.
CheckRedirectDefault == "follow"

\* part_005:46-48
CheckRedirect == "ErrUseLastResponse"

\* The broker answers 200 with code "ok" only after it has set the password.
SaysApplied(r) ==
    /\ r.net = "ok" /\ r.status = 200
    /\ r.body.xml /\ r.body.root = "rpc-reply" /\ r.body.code = "ok"

\* An exchange: the first response to the request, the response Do
\* returned, the hosts a request went to, what ChangePassword returned.
Exchange(st, first, last, hosts, err) ==
    [state |-> st, first |-> first, reply |-> last, hosts |-> hosts, err |-> err]

\* part_005:63-81  the request is built and sent to SEMPURL; on a redirect
\* the client consults CheckRedirect and either returns that response or
\* sends the request on to Location and returns what answers there.
ChangePasswordDo(p) ==
    /\ pc[p] = "send"
    /\ pc' = [pc EXCEPT ![p] = "recv"]
    /\ \E first \in Responses, applied \in BOOLEAN :
         /\ SaysApplied(first) => applied
         /\ IF applied
            THEN /\ remotePw' = [remotePw EXCEPT ![RemoteKey(loc[p])] = cand[p]]
                 /\ hist' = [hist EXCEPT ![cand[p]].applied = TRUE]
            ELSE UNCHANGED <<remotePw, hist>>
         /\ IF IsRedirect(first) /\ CheckRedirect # "ErrUseLastResponse"
            THEN \E second \in {r \in Responses : ~IsRedirect(r)} :
                   semp' = Exchange("replied", first, second,
                                    {loc[p].Broker, Location}, "none")
            ELSE semp' = Exchange("replied", first, first, {loc[p].Broker}, "none")
    /\ UNCHANGED <<store, roleMutex, rname, loc, cand, res, tickList, tickOut,
                   now, tickHist, tickRet, admin, call, creds, out>>

\* part_005:83-100 and path_rotate.go:80-88  ChangePassword returns, and
\* rotateRole goes on to the store write or returns the failure.
ChangePasswordReturn(p) ==
    /\ pc[p] = "recv"
    /\ semp.state = "replied"
    /\ semp' = [semp EXCEPT !.state = "returned", !.err = ChangePasswordError(semp.reply)]
    /\ IF ChangePasswordError(semp.reply) = "nil"
       THEN /\ hist' = [hist EXCEPT ![cand[p]].confirmed = TRUE]
            /\ pc' = [pc EXCEPT ![p] = "put"]
            /\ UNCHANGED <<store, remotePw, roleMutex, rname, loc, cand, res,
                           tickList, tickOut, now, tickHist, tickRet, admin,
                           call, creds, out>>
       ELSE /\ Return(p, "resp_rotate_failed")
            /\ UNCHANGED <<store, remotePw, rname, now, hist, tickHist, tickRet,
                           admin, call, creds>>
            /\ \E d \in Diagnostics : Logged(p, "resp_rotate_failed", d)

\* On-demand rotations of one role with the exchange of ChangePassword in
\* full.
NextSEMP ==
    \/ \E c \in Callers, name \in RoleNames : pathRotateRoleWrite(c, name)
    \/ \E c \in Callers : CallerDone(c)
    \/ \E c \in Callers : Lock(c)
    \/ \E c \in Callers : GetRole(c)
    \/ \E c \in Callers : GetBroker(c)
    \/ \E c \in Callers : Generate(c)
    \/ \E c \in Callers : ChangePasswordDo(c)
    \/ \E c \in Callers : ChangePasswordReturn(c)
    \/ \E c \in Callers : PutRotated(c)

SpecSEMP == InitTraced /\ [][NextSEMP]_vars

\* ----------------------------------------------- buildChangePasswordXML
\* A string is a sequence of characters.  U+0001 stands for the characters
\* XML cannot carry (control characters, bytes that are no UTF-8), U+FFFD
\* is the replacement character.
Ctl == "U+0001"
FFFD == "U+FFFD"

\* The characters of the arguments: a plain one, the ones with a meaning in
\* XML, a tab, and one XML cannot carry.
ArgChars == {"a", "<", ">", "&", "\"", "'", "\t", Ctl}

MaxName == 2
MaxOther == 1

\* The strings over ArgChars of at most n characters.
Strings(n) == UNION {[1..k -> ArgChars] : k \in 0..n}

\* encoding/xml EscapeText, which escapeXML calls (part_005:103-107): the
\* five characters of markup and tab, newline and carriage return become
\* references, a character outside the range of XML becomes U+FFFD.
EscapeChar(c) ==
    CASE c = "\"" -> <<"&", "#", "3", "4", ";">>
      [] c = "'"  -> <<"&", "#", "3", "9", ";">>
      [] c = "&"  -> <<"&", "a", "m", "p", ";">>
      [] c = "<"  -> <<"&", "l", "t", ";">>
      [] c = ">"  -> <<"&", "g", "t", ";">>
      [] c = "\t" -> <<"&", "#", "x", "9", ";">>
      [] c = "\n" -> <<"&", "#", "x", "A", ";">>
      [] c = "\r" -> <<"&", "#", "x", "D", ";">>
      [] c = Ctl  -> <<FFFD>>
      [] OTHER    -> <<c>>

RECURSIVE Escaped(_)
Escaped(s) == IF s = <<>> THEN <<>> ELSE EscapeChar(Head(s)) \o Escaped(Tail(s))

\* The argument inserted as it is.
escapeXMLNot(s) == s

\* part_005:103-107
escapeXML(s) == Escaped(s)

\* The names of the request's elements and attribute.
Rpc == <<"r", "p", "c">>
SempVersionAttr == <<"s", "e", "m", "p", "-", "v", "e", "r", "s", "i", "o", "n">>
Username == <<"u", "s", "e", "r", "n", "a", "m", "e">>
Name == <<"n", "a", "m", "e">>
ChangePassword ==
    <<"c", "h", "a", "n", "g", "e", "-", "p", "a", "s", "s", "w", "o", "r", "d">>
Password == <<"p", "a", "s", "s", "w", "o", "r", "d">>

Open(name) == <<"<">> \o name \o <<">">>
Close(name) == <<"<", "/">> \o name \o <<">">>

\* part_005:109-119
buildChangePasswordXML(sempVersion, username, password) ==
    (IF sempVersion # <<>>
     THEN <<"<">> \o Rpc \o <<" ">> \o SempVersionAttr \o <<"=", "\"">>
          \o escapeXML(sempVersion) \o <<"\"", ">">>
     ELSE Open(Rpc))
    \o Open(Username) \o Open(Name) \o escapeXML(username) \o Close(Name)
    \o Open(ChangePassword) \o Open(Password) \o escapeXML(password)
    \o Close(Password) \o Close(ChangePassword) \o Close(Username)
    \o Close(Rpc)

\* A call of buildChangePasswordXML before it runs.
BuildCall(sempVersion, username, password) ==
    [fn |-> "buildChangePasswordXML", sempVersion |-> sempVersion,
     username |-> username, password |-> password, at |-> "call", ret |-> <<>>]

\* part_005:63  body := buildChangePasswordXML(c.SEMPVersion, cliUsername, newPassword)
BuildRequest ==
    /\ call.fn = "buildChangePasswordXML" /\ call.at = "call"
    /\ call' = [call EXCEPT
                  !.at = "done",
                  !.ret = buildChangePasswordXML(call.sempVersion, call.username,
                                                 call.password)]
    /\ UNCHANGED <<plugin, semp, creds>>

InitXML ==
    /\ Blank /\ semp = NoExchange /\ creds = NoCreds
    /\ \E v \in Strings(MaxOther), u \in Strings(MaxName), pw \in Strings(MaxOther) :
         call = BuildCall(v, u, pw)

NextXML == BuildRequest

SpecXML == InitXML /\ [][NextXML]_vars

\* --------------------------------------------- reading the request as XML
\* What a reader of XML makes of a document: the sequence of its start
\* tags (with attributes), texts and end tags, or Malformed.
Malformed == [ok |-> FALSE]

Min(S) == CHOOSE x \in S : \A y \in S : x <= y

\* The first position from i on where s has c, 0 when there is none.
FirstAt(s, i, c) ==
    LET J == {j \in i..Len(s) : s[j] = c}
    IN  IF J = {} THEN 0 ELSE Min(J)

\* The position of the ">" that ends the tag starting at i: the first one
\* outside a quoted attribute value.
TagClose(doc, i) ==
    LET Quotes(j) == Cardinality({k \in i..j : doc[k] = "\""})
        J == {j \in (i + 1)..Len(doc) : doc[j] = ">" /\ Quotes(j) % 2 = 0}
    IN  IF J = {} THEN 0 ELSE Min(J)

\* The characters no name contains.
Delimiters == {"<", ">", "&", "\"", "'", " ", "=", "/", ";", "\t", "\n", "\r", Ctl}

IsName(s) == s # <<>> /\ \A k \in 1..Len(s) : s[k] \notin Delimiters

\* The character a reference stands for, "" for an unknown reference.
EntityChar(ent) ==
    CASE ent = <<"a", "m", "p">>      -> "&"
      [] ent = <<"l", "t">>           -> "<"
      [] ent = <<"g", "t">>           -> ">"
      [] ent = <<"q", "u", "o", "t">> -> "\""
      [] ent = <<"a", "p", "o", "s">> -> "'"
      [] ent = <<"#", "3", "4">>      -> "\""
      [] ent = <<"#", "3", "9">>      -> "'"
      [] ent = <<"#", "x", "9">>      -> "\t"
      [] ent = <<"#", "x", "A">>      -> "\n"
      [] ent = <<"#", "x", "D">>      -> "\r"
      [] OTHER                        -> ""

\* The character of text or of an attribute value at position i of s, and
\* the position after it: "<" and the characters XML cannot carry are
\* errors, "&" starts a reference, white space in an attribute value is
\* read as a space.
DecodeAt(s, i, inAttr) ==
    LET c == s[i]
        j == FirstAt(s, i, ";")
    IN  IF c = "&"
        THEN IF j = 0 \/ EntityChar(SubSeq(s, i + 1, j - 1)) = ""
             THEN Malformed
             ELSE [ok |-> TRUE, c |-> EntityChar(SubSeq(s, i + 1, j - 1)), next |-> j + 1]
        ELSE IF c \in {Ctl, "<"} THEN Malformed
        ELSE IF inAttr /\ c \in {"\t", "\n", "\r"}
             THEN [ok |-> TRUE, c |-> " ", next |-> i + 1]
        ELSE [ok |-> TRUE, c |-> c, next |-> i + 1]

\* The value of an attribute, given what stands between its quotes.
RECURSIVE DecodeValue(_, _, _)
DecodeValue(s, i, acc) ==
    IF i > Len(s) THEN [ok |-> TRUE, s |-> acc]
    ELSE LET d == DecodeAt(s, i, TRUE)
         IN  IF ~d.ok THEN Malformed ELSE DecodeValue(s, d.next, Append(acc, d.c))

\* A start tag, given what stands between "<" and ">": a name, then
\* nothing or one attribute name="value".
StartTag(tag) ==
    LET sp == FirstAt(tag, 1, " ")
        attr == SubSeq(tag, sp + 1, Len(tag))
        eq == FirstAt(attr, 1, "=")
        value == SubSeq(attr, eq + 2, Len(attr) - 1)
    IN  IF sp = 0
        THEN IF IsName(tag) THEN [ok |-> TRUE, name |-> tag, attrs |-> <<>>]
             ELSE Malformed
        ELSE IF /\ IsName(SubSeq(tag, 1, sp - 1))
                /\ eq > 1 /\ IsName(SubSeq(attr, 1, eq - 1))
                /\ Len(attr) >= eq + 2
                /\ attr[eq + 1] = "\"" /\ attr[Len(attr)] = "\""
                /\ FirstAt(value, 1, "\"") = 0
                /\ DecodeValue(value, 1, <<>>).ok
             THEN [ok |-> TRUE, name |-> SubSeq(tag, 1, sp - 1),
                   attrs |-> << <<SubSeq(attr, 1, eq - 1),
                                  DecodeValue(value, 1, <<>>).s>> >>]
             ELSE Malformed

StartEvent(name, attrs) == [t |-> "start", name |-> name, attrs |-> attrs]
EndEvent(name) == [t |-> "end", name |-> name]
TextEvent(s) == [t |-> "text", s |-> s]

\* One more character of text: it extends the text before it.
AddText(events, c) ==
    IF events # <<>> /\ events[Len(events)].t = "text"
    THEN [events EXCEPT ![Len(events)].s = Append(@, c)]
    ELSE Append(events, TextEvent(<<c>>))

\* The document from position i on, inside the open elements of stack.
RECURSIVE ParseXML(_, _, _, _)
ParseXML(doc, i, stack, events) ==
    IF i > Len(doc)
    THEN IF stack = <<>> /\ events # <<>>
         THEN [ok |-> TRUE, events |-> events]
         ELSE Malformed
    ELSE IF stack = <<>> /\ (events # <<>> \/ doc[i] # "<") THEN Malformed
    ELSE IF doc[i] = "<"
    THEN LET j == TagClose(doc, i)
             tag == SubSeq(doc, i + 1, j - 1)
         IN  IF j = 0 \/ tag = <<>> THEN Malformed
             ELSE IF tag[1] = "/"
             THEN IF stack # <<>> /\ IsName(Tail(tag)) /\ Head(stack) = Tail(tag)
                  THEN ParseXML(doc, j + 1, Tail(stack),
                                Append(events, EndEvent(Tail(tag))))
                  ELSE Malformed
             ELSE IF StartTag(tag).ok
                  THEN ParseXML(doc, j + 1, <<StartTag(tag).name>> \o stack,
                                Append(events, StartEvent(StartTag(tag).name,
                                                          StartTag(tag).attrs)))
                  ELSE Malformed
    ELSE LET d == DecodeAt(doc, i, FALSE)
         IN  IF ~d.ok THEN Malformed
             ELSE ParseXML(doc, d.next, stack, AddText(events, d.c))

\* The request for a version, a user name and a password, as events.
Text(s) == IF s = <<>> THEN <<>> ELSE <<TextEvent(s)>>

Request(sempVersion, username, password) ==
    <<StartEvent(Rpc, IF sempVersion = <<>> THEN <<>>
                      ELSE << <<SempVersionAttr, sempVersion>> >>),
      StartEvent(Username, <<>>), StartEvent(Name, <<>>)>>
    \o Text(username)
    \o <<EndEvent(Name), StartEvent(ChangePassword, <<>>), StartEvent(Password, <<>>)>>
    \o Text(password)
    \o <<EndEvent(Password), EndEvent(ChangePassword), EndEvent(Username),
         EndEvent(Rpc)>>

\* A string with U+FFFD for each character XML cannot carry.
Carried(s) == [k \in 1..Len(s) |-> IF s[k] = Ctl THEN FFFD ELSE s[k]]

\* --------------------------------------------------------- pathCredsRead
\* docs/plans/2026-02-01-solace-vault-plugin-implementation.md:1841-1866
MaxReads == 2

\* time.Time.Format(time.RFC3339): the text of a time, to the second, which
\* is the unit of the clock here.
RFC3339(t) == <<"RFC3339", t>>

\* The rotations of role name that ended with the store write.
Completed(name) == {k \in 1..Len(hist) : hist[k].role = name /\ hist[k].stored}

\* A response whose last_rotated is the time of the read.
CredsDataNow(role) ==
    [k \in {"cli_username", "password", "broker", "last_rotated"} |->
        CASE k = "cli_username" -> role.CLIUsername
          [] k = "password" -> role.Password
          [] k = "broker" -> role.Broker
          [] k = "last_rotated" -> RFC3339(now)]

\* :1855-1863  the data of the response
CredsData(role) ==
    [k \in {"cli_username", "password", "broker"}
           \cup (IF role.LastRotated # ZeroTime THEN {"last_rotated"} ELSE {}) |->
        CASE k = "cli_username" -> role.CLIUsername
          [] k = "password" -> role.Password
          [] k = "broker" -> role.Broker
          [] k = "last_rotated" -> RFC3339(role.LastRotated)]

NoData == [k \in {} |-> 0]

\* The n-th response of a credentials read, with history: the rotations of
\* the role completed by then, the processes that were rotating it, the
\* ones among them that held roleMutex and were waiting for the broker's
\* reply, and the response before this one.
CredsResponse(name, r, data) ==
    [n |-> creds.n + 1, name |-> name, res |-> r, data |-> data,
     completed |-> Completed(name),
     during |-> {p \in Procs : pc[p] \in RotStates /\ rname[p] = name},
     blocked |-> {p \in Procs : /\ pc[p] = "recv" /\ rname[p] = name
                                /\ roleMutex = p},
     prev |-> [res |-> creds.res, data |-> creds.data,
               completed |-> creds.completed]]

\* pathCredsRead waiting for roleMutex, which it has for the read alone.
pathCredsReadLocked(name) ==
    /\ creds.n < MaxReads
    /\ roleMutex = "free"
    /\ \/ creds' = CredsResponse(name, "err_storage", NoData)
       \/ /\ ~hasRole(name)
          /\ creds' = CredsResponse(name, "resp_role_not_found", NoData)
       \/ /\ hasRole(name) /\ getRole(name).Password = EmptyPw
          /\ creds' = CredsResponse(name, "resp_not_rotated", NoData)
       \/ /\ hasRole(name) /\ getRole(name).Password # EmptyPw
          /\ creds' = CredsResponse(name, "ok", CredsData(getRole(name)))
    /\ UNCHANGED <<plugin, call, semp>>

\* pathCredsRead with no check of the password.
pathCredsReadUnchecked(name) ==
    /\ creds.n < MaxReads
    /\ \/ creds' = CredsResponse(name, "err_storage", NoData)
       \/ /\ ~hasRole(name)
          /\ creds' = CredsResponse(name, "resp_role_not_found", NoData)
       \/ /\ hasRole(name)
          /\ creds' = CredsResponse(name, "ok", CredsData(getRole(name)))
    /\ UNCHANGED <<plugin, call, semp>>

\* :1841-1866
pathCredsRead(name) ==
    /\ creds.n < MaxReads
    /\ \/ creds' = CredsResponse(name, "err_storage", NoData)
       \/ /\ ~hasRole(name)
          /\ creds' = CredsResponse(name, "resp_role_not_found", NoData)
       \/ /\ hasRole(name) /\ getRole(name).Password = EmptyPw
          /\ creds' = CredsResponse(name, "resp_not_rotated", NoData)
       \/ /\ hasRole(name) /\ getRole(name).Password # EmptyPw
          /\ creds' = CredsResponse(name, "ok", CredsData(getRole(name)))
    /\ UNCHANGED <<plugin, call, semp>>

\* No read yet.
FirstCreds == [n |-> 0, name |-> "", res |-> "none", data |-> NoData,
               completed |-> {}, during |-> {}, blocked |-> {},
               prev |-> [res |-> "none", data |-> NoData, completed |-> {}]]

\* Role r1 has been written and never rotated; nothing has been read.
InitCreds ==
    /\ roles = [n \in {"r1"} |-> NewRole("b1", "u1", 0)]
    /\ brokers = BrokerNames
    /\ configs = [b \in brokers |-> WrittenBroker]
    /\ remotePw = [k \in BrokerNames \X CLIUsers |-> InitialPw]
    /\ roleMutex = "free"
    /\ pc = [p \in Procs |-> "idle"]
    /\ rname = [p \in Procs |-> ""]
    /\ loc = [p \in Procs |-> NilRole]
    /\ cand = [p \in Procs |-> EmptyPw]
    /\ res = [c \in Callers |-> "none"]
    /\ tickList = <<>>
    /\ tickOut = NoOutcome
    /\ now = 1
    /\ hist = <<>>
    /\ tickStart = ZeroTime
    /\ tickBefore = [r \in RoleNames |-> EmptyPw]
    /\ tickAccepted = {}
    /\ tickRet = "none"
    /\ log = [p \in Procs |-> {}]
    /\ body = [p \in Procs |-> NoBody]
    /\ admin = NoAdmin
    /\ call = NoCall
    /\ semp = NoExchange
    /\ creds = FirstCreds

\* Credentials reads alongside the on-demand rotations of the role, the
\* clock, and the delete of the role.
NextCreds ==
    \/ \E c \in Callers : pathRotateRoleWrite(c, "r1")
    \/ \E c \in Callers : CallerDone(c)
    \/ \E c \in Callers : Lock(c)
    \/ \E c \in Callers : GetRole(c)
    \/ \E c \in Callers : GetBroker(c)
    \/ \E c \in Callers : Generate(c)
    \/ \E c \in Callers : ChangePasswordSend(c)
    \/ \E c \in Callers : ChangePasswordRecv(c)
    \/ \E c \in Callers : PutRotated(c)
    \/ ClockAdvance
    \/ pathRolesDelete("r1")
    \/ pathCredsRead("r1")

SpecCreds == InitCreds /\ [][NextCreds]_vars

\* ------------------------------------------------ config/brokers write
\* The values a broker write is made with.
URLs == {"", "https://broker:8080", "ftp://broker", "https://", "://broker"}
AdminUsernames == {"", "admin"}
AdminPasswords == {"", "pw1", "pw2"}
SEMPVersions == {"", "soltr/10_4"}

\* A field of the request: <<>> when the request does not carry it,
\* <<v>> when it carries v (framework.FieldData.GetOk).
Given(values) == {<<>>} \cup {<<v>> : v \in values}
GetOk(field, stored) == IF field = <<>> THEN stored ELSE field[1]

\* net/url.Parse for the values above: an error for the text with no
\* scheme before "://", the scheme and the host otherwise.
urlParse(u) ==
    CASE u = "https://broker:8080" ->
             [err |-> FALSE, Scheme |-> "https", Host |-> "broker:8080"]
      [] u = "ftp://broker" -> [err |-> FALSE, Scheme |-> "ftp", Host |-> "broker"]
      [] u = "https://" -> [err |-> FALSE, Scheme |-> "https", Host |-> ""]
      [] u = "://broker" -> [err |-> TRUE, Scheme |-> "", Host |-> ""]
      [] OTHER -> [err |-> FALSE, Scheme |-> "", Host |-> ""]

\* &BrokerConfig{}
ZeroBroker == BrokerConfig("", "", "", "", FALSE)

\* path_config_brokers.go:117-135, on the merged configuration.
validateBroker(config) ==
    LET parsedURL == urlParse(config.SEMPURL) IN
    IF config.SEMPURL = "" THEN "semp_url is required"
    ELSE IF parsedURL.err THEN "semp_url is not a valid URL"
    ELSE IF parsedURL.Scheme # "http" /\ parsedURL.Scheme # "https"
        THEN "semp_url must use http or https scheme"
    ELSE IF parsedURL.Host = "" THEN "semp_url must include a host"
    ELSE IF config.AdminUsername = "" THEN "admin_username is required"
    ELSE IF config.AdminPassword = "" THEN "admin_password is required"
    ELSE "ok"

\* The request fields that are there, by the name of the field they set.
Supplied(url, user, pw, version, skip) ==
    {f \in {"SEMPURL", "AdminUsername", "AdminPassword", "SEMPVersion",
            "TLSSkipVerify"} :
        \/ f = "SEMPURL" /\ url # <<>>
        \/ f = "AdminUsername" /\ user # <<>>
        \/ f = "AdminPassword" /\ pw # <<>>
        \/ f = "SEMPVersion" /\ version # <<>>
        \/ f = "TLSSkipVerify" /\ skip # <<>>}

\* What is kept of a broker write: the name, the fields supplied, whether
\* the broker was stored, and the response.
BrokerWrite(name, supplied, resp) ==
    [fn |-> "pathConfigBrokersWrite", name |-> name, supplied |-> supplied,
     update |-> name \in brokers, resp |-> resp]

\* path_config_brokers.go:89-142, with every field taken from the request
\* or from the zero value.
pathConfigBrokersWriteReplacing(name, url, user, pw, version, skip) ==
    LET existing == ZeroBroker
        config == BrokerConfig(GetOk(url, existing.SEMPURL),
                               GetOk(user, existing.AdminUsername),
                               GetOk(pw, existing.AdminPassword),
                               GetOk(version, existing.SEMPVersion),
                               GetOk(skip, existing.TLSSkipVerify))
        supplied == Supplied(url, user, pw, version, skip)
    IN  /\ \/ /\ call' = BrokerWrite(name, supplied, "err_storage")
              /\ UNCHANGED <<brokers, configs>>
           \/ /\ validateBroker(config) # "ok"
              /\ call' = BrokerWrite(name, supplied, validateBroker(config))
              /\ UNCHANGED <<brokers, configs>>
           \/ /\ validateBroker(config) = "ok"
              /\ call' = BrokerWrite(name, supplied, "ok")
              /\ brokers' = brokers \cup {name}
              /\ configs' = [x \in DOMAIN configs \cup {name} |->
                               IF x = name THEN config ELSE configs[x]]
        /\ UNCHANGED <<roles, remotePw, roleMutex, pc, rname, loc, cand, res,
                       tickList, tickOut, now, hist, tickHist, tickRet, log,
                       body, admin, semp, creds>>

\* path_config_brokers.go:89-142: the stored configuration, or the zero one,
\* takes the fields of the request that are there; the result is validated
\* and stored. A storage error of getBroker or putBroker stores nothing.
pathConfigBrokersWrite(name, url, user, pw, version, skip) ==
    LET existing == IF name \in brokers THEN configs[name] ELSE ZeroBroker
        config == BrokerConfig(GetOk(url, existing.SEMPURL),
                               GetOk(user, existing.AdminUsername),
                               GetOk(pw, existing.AdminPassword),
                               GetOk(version, existing.SEMPVersion),
                               GetOk(skip, existing.TLSSkipVerify))
        supplied == Supplied(url, user, pw, version, skip)
    IN  /\ \/ /\ call' = BrokerWrite(name, supplied, "err_storage")
              /\ UNCHANGED <<brokers, configs>>
           \/ /\ validateBroker(config) # "ok"
              /\ call' = BrokerWrite(name, supplied, validateBroker(config))
              /\ UNCHANGED <<brokers, configs>>
           \/ /\ validateBroker(config) = "ok"
              /\ call' = BrokerWrite(name, supplied, "ok")
              /\ brokers' = brokers \cup {name}
              /\ configs' = [x \in DOMAIN configs \cup {name} |->
                               IF x = name THEN config ELSE configs[x]]
        /\ UNCHANGED <<roles, remotePw, roleMutex, pc, rname, loc, cand, res,
                       tickList, tickOut, now, hist, tickHist, tickRet, log,
                       body, admin, semp, creds>>

\* No broker is stored, no role, and no request has been made.
InitBroker ==
    /\ roles = [n \in {} |-> NilRole]
    /\ brokers = {}
    /\ configs = [b \in brokers |-> WrittenBroker]
    /\ remotePw = [k \in BrokerNames \X CLIUsers |-> InitialPw]
    /\ roleMutex = "free"
    /\ pc = [p \in Procs |-> "idle"]
    /\ rname = [p \in Procs |-> ""]
    /\ loc = [p \in Procs |-> NilRole]
    /\ cand = [p \in Procs |-> EmptyPw]
    /\ res = [c \in Callers |-> "none"]
    /\ tickList = <<>>
    /\ tickOut = NoOutcome
    /\ now = 1
    /\ hist = <<>>
    /\ tickStart = ZeroTime
    /\ tickBefore = [r \in RoleNames |-> EmptyPw]
    /\ tickAccepted = {}
    /\ tickRet = "none"
    /\ log = [p \in Procs |-> {}]
    /\ body = [p \in Procs |-> NoBody]
    /\ admin = NoAdmin
    /\ call = NoCall
    /\ semp = NoExchange
    /\ creds = NoCreds

\* The broker writes and deletes an operator makes.
NextBroker ==
    \/ \E name \in BrokerNames, url \in Given(URLs), user \in Given(AdminUsernames),
          pw \in Given(AdminPasswords), version \in Given(SEMPVersions),
          skip \in Given(BOOLEAN) :
          pathConfigBrokersWrite(name, url, user, pw, version, skip)
    \/ \E name \in BrokerNames : pathConfigBrokersDelete(name)

SpecBroker == InitBroker /\ [][NextBroker]_vars

\* ------------------------------------------------ rotations in contention
\* The calls that may still generate a password: the rotateRole calls that
\* have not done so yet, and a periodicFunc run that may still call one.
Pending ==
    Cardinality({p \in Procs :
                   pc[p] \in {"loop", "lock", "getRole", "getBroker", "generate"}})

\* A call is started while the passwords left are enough for it and for
\* the calls already under way.
Supply == Len(hist) + Pending < MaxPw

RotateRequest(c, name) == Supply /\ pathRotateRoleWrite(c, name)

TickRun == Supply /\ TickStart

\* Role r1 was rotated at time 1 and is due at time 3; r2 has been written
\* and never rotated.
InitMutex ==
    /\ roles = [n \in RoleNames |-> IF n = "r1" THEN RoleEntry("b1", "u1", 1, 0, 1, 1)
                                    ELSE NewRole("b1", "u2", 1)]
    /\ brokers = BrokerNames
    /\ configs = [b \in brokers |-> WrittenBroker]
    /\ remotePw = [k \in BrokerNames \X CLIUsers |->
                      IF k = <<"b1", "u1">> THEN 1 ELSE InitialPw]
    /\ roleMutex = "free"
    /\ pc = [p \in Procs |-> "idle"]
    /\ rname = [p \in Procs |-> ""]
    /\ loc = [p \in Procs |-> NilRole]
    /\ cand = [p \in Procs |-> EmptyPw]
    /\ res = [c \in Callers |-> "none"]
    /\ tickList = <<>>
    /\ tickOut = NoOutcome
    /\ now = MaxTime
    /\ hist = <<[HistEntry("r1", "demand") EXCEPT
                     !.applied = TRUE, !.confirmed = TRUE, !.stored = TRUE, !.ts = 1]>>
    /\ tickStart = ZeroTime
    /\ tickBefore = [r \in RoleNames |-> EmptyPw]
    /\ tickAccepted = {}
    /\ tickRet = "none"
    /\ log = [p \in Procs |-> {}]
    /\ body = [p \in Procs |-> NoBody]
    /\ admin = NoAdmin
    /\ call = NoCall
    /\ semp = NoExchange
    /\ creds = NoCreds

\* On-demand rotations and periodicFunc runs side by side, with the deletes
\* that make a role or a broker go missing under them.
NextMutex ==
    \/ \E c \in Callers, name \in RoleNames : RotateRequest(c, name)
    \/ \E c \in Callers : CallerDone(c)
    \/ TickRun
    \/ TickNext
    \/ TickEnd
    \/ TickDone
    \/ \E p \in Procs : Lock(p)
    \/ \E p \in Procs : Critical(p)
    \/ \E name \in RoleNames : pathRolesDelete(name)
    \/ \E b \in BrokerNames : pathConfigBrokersDelete(b)

\* Each step of a rotateRole call is taken once it can be (the HTTP client
\* has a timeout, so ChangePassword returns); sync.RWMutex hands the mutex
\* to a waiting Lock; and periodicFunc goes through its list.
FairMutex ==
    /\ \A p \in Procs : SF_vars(Lock(p))
    /\ \A p \in Procs : WF_vars(Critical(p))
    /\ WF_vars(TickNext)
    /\ WF_vars(TickEnd)

SpecMutex == InitMutex /\ [][NextMutex]_vars /\ FairMutex

\* ================================================================ claims
Range(q) == {q[i] : i \in 1..Len(q)}

Max(S) == CHOOSE x \in S : \A y \in S : y <= x

\* What the rotateRole call of p returned, once it has.
RotateResult(p) ==
    IF p = Tick
    THEN IF rname[p] \in DOMAIN tickOut THEN tickOut[rname[p]] ELSE "none"
    ELSE res[p]

\* Every process is outside rotateRole and outside periodicFunc.
AllReturned == \A p \in Procs : pc[p] \in {"idle", "done"}

\* The generated passwords that were stored for role r.
StoredIds(r) == {k \in 1..Len(hist) : hist[k].role = r /\ hist[k].stored}

\* Role r is the only role on its remote account.
DistinctRemote(r) ==
    \A q \in (DOMAIN roles) \ {r} : RemoteKey(roles[q]) # RemoteKey(roles[r])

\* No rotation hit a persistence failure after the broker confirmed.
NoPersistFailure == \A k \in 1..Len(hist) : hist[k].confirmed => hist[k].stored

\* The store and the broker agree on every role that has its remote account
\* to itself: the store holds what the last stored rotation wrote.
InSync ==
    \A r \in DOMAIN roles :
        (DistinctRemote(r) /\ StoredIds(r) # {}) =>
            /\ roles[r].Password = Max(StoredIds(r))
            /\ roles[r].LastRotated = hist[Max(StoredIds(r))].ts
            /\ remotePw[RemoteKey(roles[r])] = roles[r].Password

\* C1: the stored password of a role is empty, or is a generated password
\* for which ChangePassword returned success for that role before putRole
\* wrote it.
C1_StoredSecretConfirmed ==
    \A r \in DOMAIN roles :
        \/ roles[r].Password = EmptyPw
        \/ /\ roles[r].Password \in 1..Len(hist)
           /\ hist[roles[r].Password].role = r
           /\ hist[roles[r].Password].confirmed

\* C1 witness: a role holds a confirmed password while a later password
\* generated for it, which the broker applied, was never confirmed or stored.
C1_Witness ==
    \E r \in DOMAIN roles : \E k \in 1..Len(hist) :
        /\ roles[r].Password # EmptyPw
        /\ k > roles[r].Password
        /\ hist[k].role = r
        /\ hist[k].applied
        /\ ~hist[k].confirmed
        /\ roleMutex = "free"

\* C2: the store of roles changes only in the putRole step of a rotation
\* that returns success; a rotateRole that fails, for whatever reason,
\* leaves Password and LastRotated of every role as they were.
C2_FailedRotateLeavesStore ==
    [][roles' # roles =>
         \E p \in Procs : /\ pc[p] = "put"
                          /\ pc'[p] \notin RotStates
                          /\ RotateResult(p)' = "ok"]_vars

\* C2 witness: an on-demand rotation of a role rotated earlier has failed at
\* ChangePassword or at putRole, and the role still has its earlier password
\* and timestamp.
C2_Witness ==
    \E c \in Callers :
        /\ pc[c] = "done"
        /\ res[c] \in {"resp_rotate_failed", "err_manual_recovery"}
        /\ hasRole(rname[c])
        /\ roles[rname[c]].Password # EmptyPw
        /\ roles[rname[c]].LastRotated < now
        /\ \E k \in 1..Len(hist) : k > roles[rname[c]].Password /\ hist[k].role = rname[c]

\* C3: at most one process is between Lock and the deferred Unlock of
\* rotateRole, and that process holds roleMutex, during ChangePassword as in
\* every other step of the section.
C3_MutualExclusion ==
    /\ Cardinality({p \in Procs : pc[p] \in RotStates}) <= 1
    /\ \A p \in Procs : pc[p] \in RotStates => roleMutex = p

\* C3 witness: one process waits for the mutex while the other is inside
\* ChangePassword.
C3_Witness ==
    \E p, q \in Procs : pc[p] \in {"send", "recv"} /\ pc[q] = "lock"

\* C4 as stated: once every rotation has returned and none hit a persistence
\* failure, store and broker agree on every role with its own remote account.
C4_SyncAfterRotations == (AllReturned /\ NoPersistFailure) => InSync

\* C5 as stated: no rotateRole gets as far as ChangePassword or putRole for a
\* role whose last successful rotation happened no time ago.
C5_RateLimited ==
    \A p \in Procs :
        pc[p] \in {"send", "recv", "put"} =>
            ~(loc[p].LastRotated # ZeroTime /\ loc[p].LastRotated = now)

\* C6: periodicFunc never calls rotateRole for a role whose RotationPeriod is
\* 0, so no password it generates, sends or stores belongs to such a role.
C6_NoPeriodNoSchedule ==
    /\ pc[Tick] \in {"lock"} \cup RotStates =>
           getRole(rname[Tick]).RotationPeriod # 0
    /\ \A k \in 1..Len(hist) :
           hist[k].by = "tick" => getRole(hist[k].role).RotationPeriod # 0

\* C6 witness: periodicFunc has passed over a role with RotationPeriod 0
\* that was rotated more than a time unit ago.
C6_Witness ==
    /\ pc[Tick] \in {"loop", "done"}
    /\ \E r \in DOMAIN roles :
          /\ r \in DOMAIN tickOut
          /\ tickOut[r] = "skipped"
          /\ roles[r].RotationPeriod = 0
          /\ roles[r].LastRotated # ZeroTime
          /\ now > roles[r].LastRotated + 1

\* C7: periodicFunc never calls rotateRole for a role whose LastRotated is
\* zero; the first stored rotation of a role is an on-demand one.
C7_NeverRotatedNoSchedule ==
    /\ pc[Tick] \in {"lock"} \cup RotStates =>
           getRole(rname[Tick]).LastRotated # ZeroTime
    /\ \A k \in 1..Len(hist) :
           hist[k].by = "tick" =>
               \E j \in 1..(k - 1) : /\ hist[j].role = hist[k].role
                                     /\ hist[j].by = "demand"
                                     /\ hist[j].stored

\* C7 witness: periodicFunc has passed over a role with a rotation period
\* that was never rotated, however late it is.
C7_Witness ==
    /\ pc[Tick] \in {"loop", "done"}
    /\ now = MaxTime
    /\ \E r \in DOMAIN roles :
          /\ r \in DOMAIN tickOut
          /\ tickOut[r] = "skipped"
          /\ roles[r].RotationPeriod # 0
          /\ roles[r].LastRotated = ZeroTime

\* The due condition with "at or after" in place of "after".
DueAtOrAfter(name, t) ==
    /\ hasRole(name)
    /\ getRole(name).RotationPeriod # 0
    /\ getRole(name).LastRotated # ZeroTime
    /\ t >= getRole(name).LastRotated + getRole(name).RotationPeriod

\* C8 as stated: when periodicFunc has read a role, it calls rotateRole for
\* it exactly when RotationPeriod is not 0, LastRotated is not zero and the
\* clock is at or past LastRotated + RotationPeriod.
C8_RotatesIffElapsed ==
    [][(/\ pc[Tick] = "loop"
        /\ tickList # <<>>
        /\ \/ pc'[Tick] = "lock"
           \/ /\ tickList' = Tail(tickList)
              /\ tickOut'[Head(tickList)] = "skipped")
       => (pc'[Tick] = "lock" <=> DueAtOrAfter(Head(tickList), now))]_vars

C10_TickVisitsEveryRole ==
    /\ pc[Tick] \in {"loop", "lock"} \cup RotStates =>
           (DOMAIN tickOut) \cup Range(tickList) = DOMAIN roles
    /\ (pc[Tick] = "done" /\ tickOut # ListFailed) =>
           (tickList = <<>> /\ DOMAIN tickOut = DOMAIN roles)

\* C10 witness: periodicFunc has returned; the rotation of the first role
\* failed and the rotation of the second succeeded.
C10_Witness ==
    /\ pc[Tick] = "done"
    /\ DOMAIN tickOut = {"r1", "r2"}
    /\ tickOut["r1"] \in Failures
    /\ tickOut["r2"] = "ok"

\* C11: periodicFunc returns nil to the host whatever happened in the run:
\* a failed listing, a failed read, a rotation that returned an error or an
\* error response.
C11_TickReturnsNil ==
    /\ tickRet \in {"none", "nil"}
    /\ pc[Tick] = "done" => tickRet = "nil"

\* C11 witness: periodicFunc has returned after a failed listing.
C11_Witness ==
    /\ pc[Tick] = "done"
    /\ tickOut = ListFailed
    /\ tickRet = "nil"

\* C12 as stated: every rotateRole call of a periodicFunc run that returned
\* an error or an error response has left a log line naming its role.
C12_TickFailuresLogged ==
    \A r \in (DOMAIN tickOut) \cap RoleNames :
        tickOut[r] \in Failures => \E l \in log[Tick] : l.role = r

\* C13: a rotateRole call of periodicFunc that fails for a due role leaves
\* the role due; and, periodicFunc being called again and again and failures
\* not lasting for ever, a due role gets a later LastRotated (unless the
\* MaxPw generated passwords of the model are used up before).
C13_DueRetriedUntilRotated ==
    /\ [][\A r \in RoleNames :
             (/\ pc[Tick] \in RotStates
              /\ rname[Tick] = r
              /\ Due(r, now)
              /\ pc'[Tick] = "loop"
              /\ tickOut'[r] \in Failures) => Due(r, now)']_vars
    /\ \A r \in RoleNames : \A t \in 1..MaxTime :
           (Due(r, now) /\ getRole(r).LastRotated = t)
               ~> (getRole(r).LastRotated > t \/ nextPw > MaxPw)

\* C13 witness: a periodicFunc rotation of a role failed, and a later
\* periodicFunc rotation of the same role was stored.
C13_Witness ==
    \E k, j \in 1..Len(hist) :
        /\ k < j
        /\ hist[k].role = hist[j].role
        /\ hist[k].by = "tick" /\ ~hist[k].stored
        /\ hist[j].by = "tick" /\ hist[j].stored
        /\ getRole(hist[j].role).Password = j

\* C14: when rotateRole looks up the broker of its role and the store
\* answers that there is none, it returns the "broker not found" error
\* response, whose text names that broker, without generating a password,
\* calling the broker or writing the store: the stored password and
\* timestamp of the role stay.
C14_DanglingBrokerNotFound ==
    [][\A p \in Procs :
         (/\ pc[p] = "getBroker"
          /\ pc'[p] # "getBroker"
          /\ loc[p].Broker \notin brokers
          /\ body'[p].text # "err_storage")
         => /\ body'[p].text = "resp_broker_not_found"
            /\ RotateResult(p)' = "resp_broker_not_found"
            /\ loc[p].Broker \in body'[p].names
            /\ pc'[p] \notin RotStates
            /\ remotePw' = remotePw
            /\ hist' = hist
            /\ roles' = roles]_vars

\* C14 witness: an on-demand rotation of a role that was rotated before and
\* whose broker configuration was deleted since has returned "broker not
\* found"; the role has the password of the earlier rotation.
C14_Witness ==
    \E c \in Callers :
        /\ pc[c] = "done"
        /\ res[c] = "resp_broker_not_found"
        /\ hasRole(rname[c])
        /\ getRole(rname[c]).Broker \in body[c].names
        /\ getRole(rname[c]).Broker \notin brokers
        /\ getRole(rname[c]).Password # EmptyPw
        /\ remotePw[RemoteKey(getRole(rname[c]))] = getRole(rname[c]).Password

\* C15: when rotateRole reads its role and the store answers that there is
\* none, it returns the "role not found" error response without generating
\* a password, calling the broker or writing the store: the name is as
\* absent afterwards as before.
C15_MissingRoleNotFound ==
    [][\A p \in Procs :
         (/\ pc[p] = "getRole"
          /\ pc'[p] # "getRole"
          /\ ~hasRole(rname[p])
          /\ body'[p].text # "err_storage")
         => /\ body'[p].text = "resp_role_not_found"
            /\ RotateResult(p)' = "resp_role_not_found"
            /\ rname[p] \in body'[p].names
            /\ pc'[p] \notin RotStates
            /\ remotePw' = remotePw
            /\ hist' = hist
            /\ roles' = roles]_vars

\* C15 witness: an on-demand rotation of a name that is not in the store
\* has returned "role not found", and the name is still not in the store.
C15_Witness ==
    \E c \in Callers :
        /\ pc[c] = "done"
        /\ res[c] = "resp_role_not_found"
        /\ rname[c] \in body[c].names
        /\ ~hasRole(rname[c])
        /\ roles # [n \in {} |-> NilRole]

\* C16: when ChangePassword has returned success and rotateRole leaves its
\* putRole step without success, it returns the "manual recovery required"
\* Go error, which is none of the error responses (role or broker not
\* found, failed to rotate); it has logged a "manual recovery required" line
\* for the role that carries the new password; and the store is as before.
C16_PersistFailureManualRecovery ==
    [][\A p \in Procs :
         (/\ pc[p] = "put"
          /\ pc'[p] # "put"
          /\ body'[p].text # "ok")
         => /\ hist[cand[p]].confirmed
            /\ body'[p].text = "err_manual_recovery"
            /\ RotateResult(p)' = "err_manual_recovery"
            /\ RotateResult(p)' \in GoErrors
            /\ \E l \in log'[p] : /\ l.msg = "manual recovery required"
                                   /\ l.role = rname[p]
                                   /\ l.pw = cand[p]
            /\ roles' = roles]_vars

\* C16 witness: an on-demand rotation of a role rotated before has returned
\* "manual recovery required": the broker has the new password, the log has
\* it, the store has the previous one.
C16_Witness ==
    \E c \in Callers :
        /\ pc[c] = "done"
        /\ res[c] = "err_manual_recovery"
        /\ hasRole(rname[c])
        /\ roles[rname[c]].Password # EmptyPw
        /\ \E l \in log[c] : /\ l.msg = "manual recovery required"
                              /\ l.pw > roles[rname[c]].Password
                              /\ remotePw[RemoteKey(roles[rname[c]])] = l.pw

Unrotated(role) == role.Password = EmptyPw /\ role.LastRotated = ZeroTime

IsRotated(role) == role.Password # EmptyPw /\ role.LastRotated # ZeroTime

\* The step is the putRole of a rotateRole call for r that returns success.
RotateStored(r) ==
    \E p \in Procs : /\ pc[p] = "put"
                     /\ rname[p] = r
                     /\ pc'[p] \notin RotStates
                     /\ RotateResult(p)' = "ok"

\* C18 as stated: a role enters the store unrotated; it gets a password and
\* a timestamp only in the putRole of a successful rotateRole; such a putRole
\* on a rotated role leaves it rotated with another password and the time of
\* the step; and no step takes a rotated role that stays in the store back
\* to unrotated.
C18_RotationStateMachine ==
    [][\A r \in RoleNames :
         /\ (~hasRole(r) /\ hasRole(r)') => Unrotated(roles'[r])
         /\ (hasRole(r) /\ hasRole(r)' /\ Unrotated(roles[r])) =>
                \/ Unrotated(roles'[r])
                \/ IsRotated(roles'[r]) /\ RotateStored(r)
         /\ (hasRole(r) /\ hasRole(r)' /\ IsRotated(roles[r])) =>
                /\ IsRotated(roles'[r])
                /\ RotateStored(r) => /\ roles'[r].Password # roles[r].Password
                                       /\ roles'[r].LastRotated = now]_vars

\* C19 as stated: a role write that succeeds on a role in the store leaves
\* the stored Password and LastRotated of that role as they were just
\* before its putRole.
C19_RoleWriteKeepsSecret ==
    [][(/\ admin.op = "put"
        /\ admin'.op = "done"
        /\ admin'.res = "ok"
        /\ hasRole(admin.name))
       => /\ roles'[admin.name].Password = roles[admin.name].Password
          /\ roles'[admin.name].LastRotated = roles[admin.name].LastRotated]_vars

\* The role write produced the "... is required" error response.
Required == {"resp_broker_required", "resp_cli_username_required"}

\* C20 as stated: a role write for a role in the store whose payload leaves
\* out broker, cli_username or rotation_period is not refused for that, and
\* when it succeeds the stored rotation period of a payload without one is
\* the period stored before.
C20_PartialUpdateMerges ==
    [][/\ (admin.op = "idle" /\ admin'.op # "idle" /\ hasRole(admin'.name))
          => admin'.res \notin Required
       /\ (/\ admin.op = "put"
           /\ admin'.res = "ok"
           /\ hasRole(admin.name)
           /\ admin.per = NoPeriod)
          => roles'[admin.name].RotationPeriod = roles[admin.name].RotationPeriod]_vars

\* C20: a role write whose payload leaves out broker or cli_username ends
\* with the "... is required" error response and writes nothing; a role
\* write that succeeds stores the broker and cli_username of its payload and
\* its rotation_period, 0 when the payload has none, whatever was stored.
C20_UpdateReplaces ==
    [][/\ (admin.op = "idle" /\ admin'.op # "idle" /\ (admin'.broker = "" \/ admin'.cli = ""))
          => /\ admin'.op = "done"
             /\ admin'.res \in Required
             /\ roles' = roles
       /\ (admin.op = "put" /\ admin'.res = "ok")
          => /\ admin.broker # "" /\ admin.cli # ""
             /\ roles'[admin.name].Broker = admin.broker
             /\ roles'[admin.name].CLIUsername = admin.cli
             /\ roles'[admin.name].RotationPeriod =
                    IF admin.per = NoPeriod THEN 0 ELSE admin.per]_vars

\* C20 witness: a role write without rotation_period has succeeded on a role
\* that was stored with rotation period 1, and the role now has period 0.
C20_Witness ==
    /\ admin.op = "done"
    /\ admin.res = "ok"
    /\ admin.per = NoPeriod
    /\ admin.existing.Broker # ""
    /\ admin.existing.RotationPeriod = 1
    /\ hasRole(admin.name)
    /\ roles[admin.name].RotationPeriod = 0

\* C21: a role write whose broker lookup finds no such broker ends with the
\* "broker not found" error response and writes nothing; and the entry a
\* role write stores names a broker that was there when the write looked
\* it up.
C21_RoleWriteChecksBroker ==
    [][/\ (/\ admin.op = "idle"
           /\ admin'.op # "idle"
           /\ admin'.broker # "" /\ admin'.cli # ""
           /\ admin'.broker \notin brokers
           /\ admin'.res # "err_storage")
          => /\ admin'.op = "done"
             /\ admin'.res = "resp_broker_not_found"
             /\ roles' = roles
       /\ (admin.op = "put" /\ admin'.res = "ok")
          => /\ roles'[admin.name].Broker = admin.broker
             /\ admin.broker \in admin.found]_vars

\* C21 witness: a role write for a role in the store, naming the broker the
\* role has and which was deleted since, has got "broker not found".
C21_Witness ==
    /\ admin.op = "done"
    /\ admin.res = "resp_broker_not_found"
    /\ admin.broker \notin admin.found
    /\ hasRole(admin.name)
    /\ roles[admin.name].Broker = admin.broker

\* The lengths a stored role may have: none (the default applies), the
\* documented default or one of the documented range.
ValidLengths ==
    {NoLength, DocPasswordLength} \cup (MinPasswordLength..MaxPasswordLength)

\* C22 as stated: a role write that succeeds has a password_length within
\* the range or none; it stores the length it has; a role written
\* without one reads back with the default length; and every role in the
\* store has the default length or one within the range.
C22_LengthValidated ==
    /\ [][(admin.op = "put" /\ admin'.res = "ok")
           => /\ admin.len \in {NoLength} \cup (MinPasswordLength..MaxPasswordLength)
              /\ admin.len # NoLength => roles'[admin.name].PasswordLength = admin.len
              /\ admin.len = NoLength =>
                     /\ "password_length" \in DOMAIN pathRolesRead(admin.name)'
                     /\ pathRolesRead(admin.name)'["password_length"] = DocPasswordLength]_vars
    /\ [](\A r \in DOMAIN roles : roles[r].PasswordLength \in ValidLengths)

\* C23 as stated: the password rotateRole generates has the length stored
\* with the role when there is one, and the documented default otherwise.
C23_CandidateLength ==
    [][\A p \in Procs :
         (pc[p] = "generate" /\ pc'[p] = "send")
         => hist'[cand'[p]].len =
                IF loc[p].PasswordLength # NoLength
                THEN loc[p].PasswordLength
                ELSE DocPasswordLength]_vars

\* generatePassword has returned and crypto/rand did not fail.
Generated == call.fn = "generatePassword" /\ call.at = "done" /\ call.err # "err_rand"

\* C24 as stated: for a length from 16 to 128 generatePassword returns a
\* string of exactly that many characters, each one of passwordCharset, which
\* has none of the excluded characters; for a length below 16 or above 128 it
\* returns a validation error and no password.
C24_GeneratorBounds ==
    Generated =>
        IF call.length \in MinPasswordLength..MaxPasswordLength
        THEN /\ call.err = "none"
             /\ call.ret.len = call.length
             /\ call.ret.bytes \subseteq Range(passwordCharset)
             /\ Range(passwordCharset) \cap excluded = {}
        ELSE /\ call.err = "err_length"
             /\ call.ret = NoBytes

\* C25 as stated: ChangePassword returns success exactly when the HTTP
\* status is a 2xx, the body parses as the reply document and its result
\* code is "ok".
C25_SuccessIff2xx ==
    semp.state = "returned" =>
        (semp.err = "nil" <=>
            /\ semp.reply.net = "ok" /\ ~semp.reply.readErr
            /\ semp.reply.status \in 200..299
            /\ semp.reply.body.xml /\ semp.reply.body.root = "rpc-reply"
            /\ semp.reply.body.code = "ok")

\* C25 amended: ChangePassword returns success exactly when the response was
\* received and read, its HTTP status is 200, its body parses as an
\* rpc-reply document and the code of its execute-result is "ok"; any other
\* status, an unparsable body or any other code, a missing one included,
\* yields a failure.
C25_SuccessIff200 ==
    semp.state = "returned" =>
        (semp.err = "nil" <=>
            /\ semp.reply.net = "ok" /\ ~semp.reply.readErr
            /\ semp.reply.status = 200
            /\ semp.reply.body.xml /\ semp.reply.body.root = "rpc-reply"
            /\ semp.reply.body.code = "ok")

\* ChangePassword has returned a failure for a 200 reply that parses as an
\* rpc-reply and has no execute-result code.
C25_Witness ==
    /\ semp.state = "returned" /\ semp.err = "err_command"
    /\ semp.reply.status = 200 /\ semp.reply.body.code = "absent"

\* C26: when the broker answers the request with a redirect, no request goes
\* to the host the redirect names, ChangePassword returns a failure, and
\* rotateRole returns the failure with the store as it was.
C26_RedirectFails ==
    /\ []((semp.state # "none" /\ IsRedirect(semp.first)) => Location \notin semp.hosts)
    /\ [][\A c \in Callers :
            (pc[c] = "recv" /\ IsRedirect(semp.first) /\ pc'[c] # "recv")
            => /\ semp'.err # "nil"
               /\ roles' = roles
               /\ pc'[c] = "done" /\ res'[c] = "resp_rotate_failed"]_vars

\* A rotation has failed on a redirect, with the password and the time of
\* the role as before.
C26_Witness ==
    /\ semp.state = "returned" /\ IsRedirect(semp.first)
    /\ semp.hosts = {"b1"}
    /\ \E c \in Callers : pc[c] = "done" /\ res[c] = "resp_rotate_failed"
    /\ Unrotated(roles["r1"])

\* buildChangePasswordXML has returned.
Built == call.fn = "buildChangePasswordXML" /\ call.at = "done"

\* C27 as stated: for all version, user name and password strings the
\* request is well-formed and reads as the expected elements, with the text
\* of name, the text of password and the version attribute equal to the
\* arguments.
C27_RequestCarriesInputs ==
    Built =>
        LET doc == ParseXML(call.ret, 1, <<>>, <<>>)
        IN  /\ doc.ok
            /\ doc.events = Request(call.sempVersion, call.username, call.password)

\* C27 amended: for all version, user name and password strings the request
\* is well-formed and reads as the expected elements, with the text of name,
\* the text of password and the version attribute equal to the arguments
\* with U+FFFD in the place of each character XML cannot carry.
C27_RequestCarriesInputsReplaced ==
    Built =>
        LET doc == ParseXML(call.ret, 1, <<>>, <<>>)
        IN  /\ doc.ok
            /\ doc.events = Request(Carried(call.sempVersion), Carried(call.username),
                                    Carried(call.password))

\* A request has been built for a user name that closes the name element
\* and a version that closes the attribute value.
C27_Witness ==
    /\ Built
    /\ call.username = <<"<", ">">> /\ call.sempVersion = <<"\"">>
    /\ call.password = <<"&">>
    /\ ParseXML(call.ret, 1, <<>>, <<>>).ok

\* A credentials read is answered in this step.
Read == creds'.n # creds.n

C29_ReadIdempotent ==
    [][Read =>
        /\ roles' = roles /\ brokers' = brokers /\ remotePw' = remotePw
        /\ (/\ creds.res = "ok" /\ creds'.res = "ok"
            /\ creds'.name = creds.name
            /\ creds'.completed = creds.completed)
           => /\ creds'.data["password"] = creds.data["password"]
              /\ "last_rotated" \in DOMAIN creds'.data \cap DOMAIN creds.data
              /\ creds'.data["last_rotated"] = creds.data["last_rotated"]]_vars

\* The role has been read twice after a rotation, at two times of the
\* clock, with a rotation in progress at the second read.
C29_Witness ==
    /\ creds.n = 2 /\ creds.res = "ok" /\ Cardinality(creds.completed) = 1
    /\ creds.prev.res = "ok" /\ creds.prev.completed = creds.completed
    /\ creds.prev.data = creds.data
    /\ creds.during # {}
    /\ creds.data["last_rotated"] # RFC3339(now)

\* C30: a read that returns credentials, a rotation of the role in progress
\* or not, returns the password the last completed rotation of the role
\* stored together with the time that rotation stored: the pair as it was
\* before the rotation in progress or as it is after it, never the password
\* of one rotation with the time of another.
C30_ReadSeesOnePair ==
    [][(Read /\ creds'.res = "ok") =>
        LET k == creds'.data["password"]
        IN  /\ k \in Completed(creds'.name)
            /\ \A j \in Completed(creds'.name) : j <= k
            /\ "last_rotated" \in DOMAIN creds'.data
            /\ creds'.data["last_rotated"] = RFC3339(hist[k].ts)]_vars

\* A read during the second rotation of the role, after the broker took
\* the new password, has returned the pair of the first rotation, and the
\* clock had advanced since.
C30_Witness ==
    /\ creds.res = "ok" /\ creds.during # {}
    /\ creds.data["password"] = 1
    /\ creds.data["last_rotated"] = RFC3339(1)
    /\ \E c \in creds.during : pc[c] = "put" /\ cand[c] = 2 /\ hist[2].applied
    /\ now > 1

\* C31: a credentials read takes no roleMutex and waits for none: it leaves
\* the mutex as it is, and it can be answered in every state where a
\* rotateRole holds the mutex, the states where that rotateRole waits for
\* the broker's reply among them.
C31_ReadTakesNoLock ==
    /\ [][Read => roleMutex' = roleMutex]_vars
    /\ []((roleMutex # "free" /\ creds.n < MaxReads) => ENABLED pathCredsRead("r1"))

\* A read has been answered while a rotateRole of the role held roleMutex
\* and waited for the broker's reply, and that rotateRole is still there.
C31_Witness ==
    /\ creds.n > 0 /\ creds.blocked # {}
    /\ \E c \in creds.blocked : pc[c] = "recv" /\ roleMutex = c

\* The stored roles that name broker b.
Referencing(b) == {n \in DOMAIN roles : roles[n].Broker = b}

\* C32: deleting a broker succeeds exactly when no stored role names it: a
\* step that removes a broker from the store finds no role naming it, and a
\* stored broker that no role names can be deleted.
C32_DeleteBlockedByRole ==
    /\ [][\A b \in BrokerNames :
            (b \in brokers /\ b \notin brokers') => Referencing(b) = {}]_vars
    /\ [](\A b \in BrokerNames :
            (b \in brokers /\ Referencing(b) = {})
                => ENABLED (pathConfigBrokersDelete(b) /\ b \notin brokers'))

\* A broker write has just been answered.
BrokerWritten ==
    /\ call'.fn = "pathConfigBrokersWrite"
    /\ call' # call \/ (configs' # configs /\ brokers \subseteq brokers')

BrokerFields ==
    {"SEMPURL", "AdminUsername", "AdminPassword", "SEMPVersion", "TLSSkipVerify"}

C34_UpdateKeepsRotation ==
    [][(/\ admin.op = "put"
        /\ admin'.op = "done"
        /\ admin'.res = "ok"
        /\ hasRole(admin.name)
        /\ IsRotated(roles[admin.name])
        /\ roles[admin.name].Password # admin.role.Password)
       => /\ roles'[admin.name].Password = Max(StoredIds(admin.name))
          /\ roles'[admin.name].LastRotated = hist[Max(StoredIds(admin.name))].ts]_vars

\* The step is the putRole of a rotateRole call for r.
RotatePut(r) ==
    \E p \in Procs : pc[p] = "put" /\ rname[p] = r /\ pc'[p] # "put"

\* C35: a role deleted after a rotateRole has read it stays out of the
\* store when that rotateRole finishes: the putRole of a rotateRole puts no
\* role into the store that is not there.
C35_RotationNeverRecreates ==
    [][\A r \in RoleNames : (RotatePut(r) /\ ~hasRole(r)) => ~hasRole(r)']_vars

\* C36: the rotateRole that periodicFunc calls goes on from its getRole,
\* under the mutex, only for a role that is due at that moment; for a role
\* rotated in the meantime it sends nothing to the broker and stores nothing.
C36_TickRechecksDue ==
    [][/\ (pc[Tick] = "getRole" /\ pc'[Tick] = "getBroker")
          => Due(rname[Tick], now)
       /\ (pc[Tick] = "send" /\ pc'[Tick] = "recv" /\ remotePw' # remotePw)
          => loc[Tick].LastRotated + loc[Tick].RotationPeriod < now]_vars

\* The positions of a process inside rotateRole, the wait for the mutex
\* included.
InRotate == RotStates \cup {"lock"}

\* C37: every return of rotateRole leaves the mutex free, whatever the exit,
\* and the mutex is held by a running rotateRole only; every rotateRole that
\* waits for the mutex gets it and returns; and a periodicFunc run comes to
\* its end.
C37_MutexReleased ==
    /\ [][\A p \in Procs :
            (pc[p] \in RotStates /\ pc'[p] \notin RotStates)
                => (roleMutex = p /\ roleMutex' = "free")]_vars
    /\ [](roleMutex # "free" => pc[roleMutex] \in RotStates)
    /\ \A p \in Procs : (pc[p] = "lock") ~> (pc[p] \notin InRotate)
    /\ (pc[Tick] \in InRotate \cup {"loop"}) ~> (pc[Tick] = "done")

\* periodicFunc's rotateRole waits for the mutex that an on-demand
\* rotateRole holds while it waits for the broker's reply.
C37_Witness ==
    /\ pc[Tick] = "lock"
    /\ \E c \in Callers : roleMutex = c /\ pc[c] = "recv"

\* C38: every stored role has an empty password exactly when its
\* LastRotated is the zero time.
C38_SecretIffRotated ==
    \A r \in DOMAIN roles :
        (roles[r].Password = EmptyPw) <=> (roles[r].LastRotated = ZeroTime)

\* A role write has stored a rotated role again, with the password and the
\* timestamp it read.
C38_Witness ==
    /\ admin.op = "done" /\ admin.res = "ok"
    /\ hasRole(admin.name)
    /\ admin.role.Password # EmptyPw
    /\ roles[admin.name] = admin.role
    /\ IsRotated(roles[admin.name])

\* C39: a successful rotateRole for role a changes the Password and the
\* LastRotated of a alone: its putRole stores a with the Broker, CLIUsername,
\* RotationPeriod and PasswordLength the call loaded under the mutex, and
\* leaves every other role and every broker as it was.
C39_RotateFrame ==
    [][\A p \in Procs :
         (pc[p] = "put" /\ pc'[p] \notin RotStates /\ RotateResult(p)' = "ok")
         => /\ hasRole(rname[p])'
            /\ \A f \in {"Broker", "CLIUsername", "RotationPeriod", "PasswordLength"} :
                   roles'[rname[p]][f] = loc[p][f]
            /\ DOMAIN roles' = DOMAIN roles \cup {rname[p]}
            /\ \A r \in DOMAIN roles \ {rname[p]} : roles'[r] = roles[r]
            /\ brokers' = brokers /\ configs' = configs]_vars

\* An on-demand rotateRole has returned success for a role with automatic
\* rotation on, stored next to another role.
C39_Witness ==
    \E c \in Callers :
        /\ pc[c] = "done" /\ res[c] = "ok"
        /\ DOMAIN roles = RoleNames
        /\ IsRotated(roles[rname[c]])
        /\ roles[rname[c]].RotationPeriod # 0

\* Every password generated so far was applied by the broker, confirmed to
\* the plugin and stored: every rotation that got to the broker succeeded.
AllSucceeded ==
    \A k \in 1..Len(hist) : hist[k].applied /\ hist[k].confirmed /\ hist[k].stored

\* C40: once every rotation has returned and all of them succeeded, the
\* stored password of every rotated role is the one its CLI user has on the
\* broker, also for two roles that name the same CLI user of the same broker.
C40_SharedRemoteInSync ==
    (AllReturned /\ AllSucceeded) =>
        \A r \in DOMAIN roles :
            StoredIds(r) # {} => roles[r].Password = remotePw[RemoteKey(roles[r])]

====
